---- MODULE Spec2Model ----
(***************************************************************************)
(* Railway traffic decision-support core: topology graph, pathfinder,      *)
(* digital twin (trains, events, actions), conflict detector and the       *)
(* multi-strategy run.                                                     *)
(*                                                                         *)
(* Numbers with a fractional part in the program are kept exact as scaled  *)
(* integers: edge costs and heuristic values in thousandths (CostUnit),    *)
(* distances in tenths of a km, station coordinates in hundredths of a     *)
(* degree, speed factors in hundredths.                                    *)
(***************************************************************************)
EXTENDS Integers, Sequences, FiniteSets, TLC

VARIABLES
  tracks,                \* NetworkGraph.tracks: track_id -> mutable keys of the track dict
  adjacency_list,        \* NetworkGraph.adjacency_list: station -> list of outgoing edges
  pathfinding_strategy,  \* RouteOptimizer.pathfinding_strategy
  trains,                \* RailwayNetwork.trains: train_id -> Train
  result,                \* what the last call returned (or raised)
  pair,                  \* history: the open / just closed disable_track..enable_track pair
  ops,                   \* number of calls made so far on the digital twin
  requests,              \* Flask app: the request each server thread is handling
  jobs_store,            \* FastAPI backend: job_id -> OptimizationJob
  tasks,                 \* FastAPI backend: job_id -> position of its run_optimization task
  optimised_dir          \* FastAPI backend: filename -> the graph stored in data/optimised

\* the state of the FastAPI backend
backend == <<jobs_store, tasks, optimised_dir>>

\* the state of the servers in front of the core
server == <<requests, backend>>

vars == <<tracks, adjacency_list, pathfinding_strategy, trains, result, pair, ops, server>>

(***************************************************************************)
(* Bounds of the model.                                                    *)
(***************************************************************************)
\* at most this many tracks are disabled at the same time (graph specification)
MaxDisabled == 3
\* at most this many events / actions are applied to one digital twin
MaxOps == 2

\* the number of track_failure / track_repair events that succeed in a run of
\* the twin under track events only
MaxTrackOps == 3

(***************************************************************************)
(* Generic helpers.                                                        *)
(***************************************************************************)
NoKey == "<absent>"      \* a dict key that is not present (or a None among strings)
None == [none |-> TRUE]  \* Python's None where an object is expected

Max(a, b) == IF a >= b THEN a ELSE b
Min(a, b) == IF a <= b THEN a ELSE b

RECURSIVE SumSeq(_)
SumSeq(s) == IF s = << >> THEN 0 ELSE Head(s) + SumSeq(Tail(s))

RECURSIVE ISqrtSearch(_, _, _)
ISqrtSearch(x, lo, hi) ==
  IF lo >= hi THEN lo
  ELSE LET mid == (lo + hi + 1) \div 2
       IN IF mid * mid <= x THEN ISqrtSearch(x, mid, hi) ELSE ISqrtSearch(x, lo, mid - 1)

\* floor of the square root (x < 2^31)
ISqrt(x) == ISqrtSearch(x, 0, 46340)

(***************************************************************************)
(* The topology file (network_graph.json): stations and directed tracks.   *)
(* The track ids, endpoints and scalar attributes are those the            *)
(* pathfinder's built-in NDLS -> GZB routes name.                          *)
(***************************************************************************)
StationIds == {"NDLS", "ANVR", "GZB", "SBB", "SHZM"}

\* a station code that is not in the topology
UnknownStation == "XXXX"

\* coordinates in hundredths of a degree
Coordinates ==
  [s \in StationIds |->
     CASE s = "NDLS" -> [lat |-> 2864, lon |-> 7722]
       [] s = "SHZM" -> [lat |-> 2859, lon |-> 7725]
       [] s = "ANVR" -> [lat |-> 2865, lon |-> 7732]
       [] s = "SBB"  -> [lat |-> 2867, lon |-> 7736]
       [] s = "GZB"  -> [lat |-> 2867, lon |-> 7743]]

\* the order of the "tracks" map of the file (dict insertion order)
TrackOrder ==
  <<"NDLS_ANVR_MAIN", "ANVR_GZB_MAIN", "NDLS_SBB_ALT", "SBB_GZB_ALT",
    "NDLS_SHZM_DIRECT", "SHZM_ANVR_LOCAL">>

TrackIds == {TrackOrder[i] : i \in DOMAIN TrackOrder}

\* a track id that is not in the topology
UnknownTrack == "NO_SUCH_TRACK"

Track(from, to, dist, time, type, cap, prio, speed) ==
  [from |-> from, to |-> to, distance_km |-> dist, travel_time_minutes |-> time,
   track_type |-> type, capacity_trains_per_hour |-> cap, priority |-> prio,
   max_speed_kmh |-> speed]

\* the stations and the tracks (in dict order) of _create_minimal_network
MinimalStations == {"NDLS", "ANVR", "GZB"}

MinimalTrackOrder == <<"NDLS_ANVR", "ANVR_GZB">>

MinimalTrackIds == {MinimalTrackOrder[i] : i \in DOMAIN MinimalTrackOrder}

\* the immutable keys of every track dict (distance_km in tenths of a km); the
\* tracks of the minimal network have from, to and travel_time_minutes only
TrackFile ==
  [t \in TrackIds \cup MinimalTrackIds |->
     CASE t = "NDLS_ANVR_MAIN"   -> Track("NDLS", "ANVR", 152, 25, "double_line", 8, "high", 120)
       [] t = "ANVR_GZB_MAIN"    -> Track("ANVR", "GZB", 187, 30, "double_line", 6, "high", 120)
       [] t = "NDLS_SBB_ALT"     -> Track("NDLS", "SBB", 221, 35, "single_line", 3, "medium", 80)
       [] t = "SBB_GZB_ALT"      -> Track("SBB", "GZB", 123, 20, "single_line", 3, "medium", 80)
       [] t = "NDLS_SHZM_DIRECT" -> Track("NDLS", "SHZM", 83, 12, "single_line", 6, "medium", 90)
       [] t = "SHZM_ANVR_LOCAL"  -> Track("SHZM", "ANVR", 112, 20, "single_line", 4, "low", 60)
       [] t = "NDLS_ANVR" -> [from |-> "NDLS", to |-> "ANVR", travel_time_minutes |-> 25]
       [] t = "ANVR_GZB"  -> [from |-> "ANVR", to |-> "GZB", travel_time_minutes |-> 30]]

\* dict.get(key, default)
Get(dict, key, default) == IF key \in DOMAIN dict THEN dict[key] ELSE default

\* NetworkGraph._create_minimal_network: the mutable keys of its track dicts
_create_minimal_network ==
  [t \in MinimalTrackIds |-> [status |-> "operational", original_status |-> NoKey]]

\* NetworkGraph.stations, which is set together with the tracks
stations(trk) == IF DOMAIN trk = MinimalTrackIds THEN MinimalStations ELSE StationIds

\* the sets of tracks a topology file may list with status "maintenance"
\* (every other track is listed "operational")
MaintenanceInFile == {{}, {"ANVR_GZB_MAIN"}}

\* NetworkGraph._load_network: the mutable keys of the track dicts after loading
_load_network(maint) ==
  [t \in TrackIds |->
     [status |-> IF t \in maint THEN "maintenance" ELSE "operational",
      original_status |-> NoKey]]

(***************************************************************************)
(* NetworkGraph                                                            *)
(***************************************************************************)
RECURSIVE AdjacencyOf(_, _, _)
\* the edges leaving station s, in the order of the tracks map
AdjacencyOf(trk, s, i) ==
  IF i > Len(TrackOrder \o MinimalTrackOrder) THEN << >>
  ELSE LET id == (TrackOrder \o MinimalTrackOrder)[i]
       IN (IF id \in DOMAIN trk /\ TrackFile[id].from = s
           THEN <<[to |-> TrackFile[id].to, track_id |-> id, track_data |-> trk[id]]>>
           ELSE << >>) \o AdjacencyOf(trk, s, i + 1)

\* NetworkGraph._build_adjacency_list: every track, whatever its status, is
\* listed under its from-station with (to_station, track_id, track_data)
_build_adjacency_list(trk) == [s \in stations(trk) |-> AdjacencyOf(trk, s, 1)]

\* NetworkGraph.disable_track: the new track dicts and the return value
disable_track(trk, track_id) ==
  IF track_id \in DOMAIN trk
  THEN [ok |-> TRUE,
        tracks |-> [trk EXCEPT ![track_id] =
                      [status |-> "disabled",
                       original_status |-> IF trk[track_id].original_status = NoKey
                                           THEN trk[track_id].status
                                           ELSE trk[track_id].original_status]]]
  ELSE [ok |-> FALSE, tracks |-> trk]

\* enable_track that always sets the status to operational
enable_track_operational(trk, track_id) ==
  IF track_id \in DOMAIN trk
  THEN [ok |-> TRUE,
        tracks |-> [trk EXCEPT ![track_id] =
                      [status |-> "operational", original_status |-> NoKey]]]
  ELSE [ok |-> FALSE, tracks |-> trk]

\* NetworkGraph.enable_track: the new track dicts and the return value
enable_track(trk, track_id) ==
  IF track_id \in DOMAIN trk
  THEN [ok |-> TRUE,
        tracks |-> [trk EXCEPT ![track_id] =
                      [status |-> IF trk[track_id].original_status = NoKey
                                  THEN "operational"
                                  ELSE trk[track_id].original_status,
                       original_status |-> NoKey]]]
  ELSE [ok |-> FALSE, tracks |-> trk]

(***************************************************************************)
(* RouteOptimizer                                                          *)
(***************************************************************************)
Strategies == {"dijkstra", "greedy", "astar"}
Criteria == {"time", "distance", "reliability"}
\* Express, Goods: the types the edge cost adjusts for; Passenger: every other type
TrainTypes == {"Express", "Passenger", "Goods", "Local"}

\* one thousandth of a minute (or of a km): the unit of edge costs and heuristics
CostUnit == 1000
\* float('inf') of the heuristic
HeuristicInf == 1000000000

\* RouteSegment(...) as the three searches build it from an adjacency entry
RouteSegment(track_id, from_station, to_station, track_data) ==
  [track_id |-> track_id, from_station |-> from_station, to_station |-> to_station,
   distance_km |-> Get(TrackFile[track_id], "distance_km", 0),
   travel_time_minutes |-> Get(TrackFile[track_id], "travel_time_minutes", 30),
   track_type |-> Get(TrackFile[track_id], "track_type", "single_line"),
   capacity |-> Get(TrackFile[track_id], "capacity_trains_per_hour", 4),
   priority |-> Get(TrackFile[track_id], "priority", "medium"),
   status |-> track_data.status]

\* RouteOptimizer._calculate_edge_cost, in thousandths
_calculate_edge_cost(track_id, criteria, train_type) ==
  LET td == TrackFile[track_id]
      track_type == Get(td, "track_type", NoKey)
      base == CASE criteria = "time" -> Get(td, "travel_time_minutes", 30) * CostUnit
                [] criteria = "distance" -> Get(td, "distance_km", 200) * (CostUnit \div 10)
                [] criteria = "reliability" ->
                     LET c0 == Get(td, "travel_time_minutes", 30) * CostUnit
                         c1 == IF track_type = "single_line" THEN (c0 * 15) \div 10 ELSE c0
                     IN IF Get(td, "priority", NoKey) = "low" THEN (c1 * 13) \div 10 ELSE c1
                [] OTHER -> 0
  IN CASE train_type = "Express" ->
            IF Get(td, "max_speed_kmh", 80) < 100 THEN (base * 12) \div 10 ELSE base
       [] train_type = "Goods" ->
            IF track_type = "single_line" THEN (base * 9) \div 10 ELSE base
       [] OTHER -> base

\* RouteOptimizer._calculate_heuristic_distance, in thousandths: the Euclidean
\* distance of the coordinates (in degrees) times 100
_calculate_heuristic_distance(station_a, station_b) ==
  IF station_a \notin StationIds \/ station_b \notin StationIds
  THEN HeuristicInf
  ELSE LET lat_diff == Coordinates[station_a].lat - Coordinates[station_b].lat
           lon_diff == Coordinates[station_a].lon - Coordinates[station_b].lon
       IN ISqrt((lat_diff * lat_diff + lon_diff * lon_diff) * CostUnit * CostUnit)

\* a pop that takes the entry pushed last
HeapLast(pq) == CHOOSE e \in pq : \A f \in pq : e.entry_count >= f.entry_count

\* heapq.heappop: the entry with the least (key, entry_count)
HeapMin(pq) ==
  CHOOSE e \in pq : \A f \in pq :
    e.key < f.key \/ (e.key = f.key /\ e.entry_count <= f.entry_count)

\* a search that follows every edge of the adjacency list, whatever its status
UsableAnyStatus(e, visited) == e.to \notin visited

\* an adjacency entry the search may follow
Usable(e, visited) == e.track_data.status = "operational" /\ e.to \notin visited

\* the (key, entry_count, station, path, g) tuple pushed for an edge; kind selects
\* the key: "dijkstra" g, "greedy" h, "astar" g + h
HeapEntry(kind, e, g, h, cur, entry_count) ==
  [key |-> CASE kind = "dijkstra" -> g [] kind = "greedy" -> h [] OTHER -> g + h,
   entry_count |-> entry_count,
   station |-> e.to,
   path |-> Append(cur.path, RouteSegment(e.track_id, cur.station, e.to, e.track_data)),
   g |-> IF kind = "greedy" THEN 0 ELSE g]

RECURSIVE PushNeighbours(_, _, _, _, _, _, _, _)
\* the "for neighbor, track_id, track_data in adjacency_list[current]" loop of the
\* three searches; st is the queue with the entry counter
PushNeighbours(kind, edges, i, st, cur, visited, destination, ct) ==
  IF i > Len(edges) THEN st
  ELSE IF ~Usable(edges[i], visited)
  THEN PushNeighbours(kind, edges, i + 1, st, cur, visited, destination, ct)
  ELSE PushNeighbours(kind, edges, i + 1,
         [pq |-> st.pq \cup
                   {HeapEntry(kind, edges[i],
                              cur.g + _calculate_edge_cost(edges[i].track_id, ct[1], ct[2]),
                              _calculate_heuristic_distance(edges[i].to, destination),
                              cur, st.entry_count + 1)},
          entry_count |-> st.entry_count + 1],
         cur, visited, destination, ct)

\* the outgoing edges of a station (adjacency_list.get(station, []))
EdgesOf(adj, station) == IF station \in DOMAIN adj THEN adj[station] ELSE << >>

RECURSIVE SearchLoop(_, _, _, _, _, _)
\* the "while pq" loop of the three searches, from the popped entry on
SearchStep(kind, adj, cur, st, visited, destination, ct) ==
  IF cur.station \in visited
  THEN SearchLoop(kind, adj, st, visited, destination, ct)
  ELSE IF cur.station = destination THEN cur.path
  ELSE SearchLoop(kind, adj,
                  PushNeighbours(kind, EdgesOf(adj, cur.station), 1, st, cur,
                                 visited \cup {cur.station}, destination, ct),
                  visited \cup {cur.station}, destination, ct)

PopMin(kind, adj, cur, st, visited, destination, ct) ==
  SearchStep(kind, adj, cur, [pq |-> st.pq \ {cur}, entry_count |-> st.entry_count],
             visited, destination, ct)

SearchLoop(kind, adj, st, visited, destination, ct) ==
  IF st.pq = {} THEN << >>
  ELSE PopMin(kind, adj, HeapMin(st.pq), st, visited, destination, ct)

\* pq = [(key, 0, origin, [])], entry_count = 0
StartQueue(key, origin) ==
  [pq |-> {[key |-> key, entry_count |-> 0, station |-> origin, path |-> << >>, g |-> 0]},
   entry_count |-> 0]

\* RouteOptimizer._dijkstra_shortest_path
_dijkstra_shortest_path(trk, adj, origin, destination, criteria, train_type) ==
  SearchLoop("dijkstra", adj, StartQueue(0, origin), {}, destination, <<criteria, train_type>>)

\* a built-in route that is returned without looking at the tracks' status
DemoRouteUnchecked(trk, ids) ==
  [i \in DOMAIN ids |->
     RouteSegment(ids[i], TrackFile[ids[i]].from, TrackFile[ids[i]].to,
                  [status |-> "operational"])]

\* the built-in route of a search: the named tracks, if all are operational
DemoRoute(trk, ids) ==
  IF \A i \in DOMAIN ids : ids[i] \in DOMAIN trk /\ trk[ids[i]].status = "operational"
  THEN [i \in DOMAIN ids |->
          RouteSegment(ids[i], TrackFile[ids[i]].from, TrackFile[ids[i]].to,
                       [status |-> "operational"])]
  ELSE << >>

\* RouteOptimizer._greedy_best_first
_greedy_best_first(trk, adj, origin, destination, criteria, train_type) ==
  IF origin = "NDLS" /\ destination = "GZB"
     /\ DemoRoute(trk, <<"NDLS_SBB_ALT", "SBB_GZB_ALT">>) # << >>
  THEN DemoRoute(trk, <<"NDLS_SBB_ALT", "SBB_GZB_ALT">>)
  ELSE SearchLoop("greedy", adj, StartQueue(0, origin), {}, destination,
                  <<criteria, train_type>>)

\* RouteOptimizer._astar_search
_astar_search(trk, adj, origin, destination, criteria, train_type) ==
  IF origin = "NDLS" /\ destination = "GZB"
     /\ DemoRoute(trk, <<"NDLS_SHZM_DIRECT", "SHZM_ANVR_LOCAL", "ANVR_GZB_MAIN">>) # << >>
  THEN DemoRoute(trk, <<"NDLS_SHZM_DIRECT", "SHZM_ANVR_LOCAL", "ANVR_GZB_MAIN">>)
  ELSE SearchLoop("astar", adj,
                  StartQueue(_calculate_heuristic_distance(origin, destination), origin),
                  {}, destination, <<criteria, train_type>>)

\* RouteOptimizer._calculate_route_cost
_calculate_route_cost(segments, train_type) ==
  SumSeq([i \in DOMAIN segments |-> segments[i].travel_time_minutes])
    + (IF Len(segments) > 2 THEN 10 ELSE 0)
    + 5 * Cardinality({i \in DOMAIN segments : segments[i].track_type = "single_line"})

\* f"{self.pathfinding_strategy}_route"
RouteType(strategy) ==
  CASE strategy = "greedy" -> "greedy_route"
    [] strategy = "astar" -> "astar_route"
    [] OTHER -> "dijkstra_route"

\* the Route object find_best_route builds from the segments found, or None
Route(route_segments, strategy, train_type) ==
  IF route_segments = << >> THEN None
  ELSE [segments |-> route_segments,
        total_distance_km |->
          SumSeq([i \in DOMAIN route_segments |-> route_segments[i].distance_km]),
        total_time_minutes |->
          SumSeq([i \in DOMAIN route_segments |-> route_segments[i].travel_time_minutes]),
        total_cost |-> _calculate_route_cost(route_segments, train_type),
        route_type |-> RouteType(strategy),
        stations |-> <<route_segments[1].from_station>> \o
                     [i \in DOMAIN route_segments |-> route_segments[i].to_station]]

\* RouteOptimizer.find_best_route: a Route, or None
find_best_route(trk, adj, strategy, origin, destination, train_type, criteria) ==
  IF origin \notin stations(trk) \/ destination \notin stations(trk) THEN None
  ELSE IF origin = destination THEN None
  ELSE Route(CASE strategy = "greedy" ->
                    _greedy_best_first(trk, adj, origin, destination, criteria, train_type)
               [] strategy = "astar" ->
                    _astar_search(trk, adj, origin, destination, criteria, train_type)
               [] OTHER ->
                    _dijkstra_shortest_path(trk, adj, origin, destination, criteria, train_type),
             strategy, train_type)

\* shared_segments of _is_duplicate_route
SharedSegments(new_route, existing) ==
  Cardinality({i \in DOMAIN new_route.segments :
                 \E j \in DOMAIN existing.segments :
                   new_route.segments[i].track_id = existing.segments[j].track_id})

\* RouteOptimizer._is_duplicate_route
_is_duplicate_route(new_route, existing_routes) ==
  \E k \in DOMAIN existing_routes :
    \/ new_route.stations = existing_routes[k].stations
    \/ SharedSegments(new_route, existing_routes[k]) * 10 > 8 * Len(new_route.segments)

RECURSIVE InsertByCost(_, _)
\* insertion of r into the cost-sorted list s after the elements of equal cost
InsertByCost(s, r) ==
  IF s = << >> THEN <<r>>
  ELSE IF r.total_cost < Head(s).total_cost THEN <<r>> \o s
  ELSE <<Head(s)>> \o InsertByCost(Tail(s), r)

\* a sort that leaves the routes in the order they were found
SortByCostSkipped(s) == s

RECURSIVE SortByCost(_)
\* list.sort(key=total_cost): stable
SortByCost(s) ==
  IF s = << >> THEN << >>
  ELSE InsertByCost(SortByCost(SubSeq(s, 1, Len(s) - 1)), s[Len(s)])

CriteriaList == <<"time", "reliability", "distance">>

\* one round of the loop of find_alternative_routes: routes and whether it broke off
CollectStep(route, routes, max_alternatives) ==
  IF route # None /\ ~_is_duplicate_route(route, routes)
  THEN [routes |-> Append(routes, route), break |-> Len(routes) + 1 >= max_alternatives]
  ELSE [routes |-> routes, break |-> FALSE]

RECURSIVE CollectRoutes(_, _, _)
\* the loop of find_alternative_routes over the criteria; found[i] is the route
\* find_best_route returns under CriteriaList[i]
CollectRoutes(found, max_alternatives, acc) ==
  IF acc.break \/ acc.i > Len(found) THEN acc.routes
  ELSE CollectRoutes(found, max_alternatives,
                     [i |-> acc.i + 1] @@ CollectStep(found[acc.i], acc.routes, max_alternatives))

\* routes[:max_alternatives]
Prefix(s, n) == SubSeq(s, 1, Min(Len(s), Max(n, 0)))

\* RouteOptimizer.find_alternative_routes
find_alternative_routes(trk, adj, strategy, origin, destination, train_type, max_alternatives) ==
  Prefix(SortByCost(CollectRoutes(
           [i \in DOMAIN CriteriaList |->
              find_best_route(trk, adj, strategy, origin, destination, train_type,
                              CriteriaList[i])],
           max_alternatives, [i |-> 1, routes |-> << >>, break |-> FALSE])),
         max_alternatives)

(***************************************************************************)
(* The graph specification: a NetworkGraph with its RouteOptimizer, driven *)
(* through their public methods.                                           *)
(***************************************************************************)
\* the (origin, destination) pairs the searches are asked for
QueryPairs ==
  {<<"NDLS", "GZB">>, <<"NDLS", "ANVR">>, <<"SHZM", "GZB">>,
   <<"ANVR", "ANVR">>, <<"GZB", "NDLS">>, <<UnknownStation, "GZB">>}

QueryTypes == {"Express", "Goods", "Passenger"}

\* the threads of the Flask development server that handle requests
Handlers == {"thread-1", "thread-2"}

\* a thread that is handling no request
NoRequest == [route |-> "none", pc |-> "idle", body |-> None, before |-> None]

\* no server is running in front of the core
NoServer ==
  /\ requests = [h \in Handlers |-> NoRequest]
  /\ jobs_store = << >>
  /\ tasks = << >>
  /\ optimised_dir = << >>

NoPair == [phase |-> "none", track |-> NoKey, calls |-> 0, adjacency_list |-> << >>]

InitGraph ==
  /\ \E maint \in MaintenanceInFile :
       /\ tracks = _load_network(maint)
       /\ adjacency_list = _build_adjacency_list(_load_network(maint))
  /\ pathfinding_strategy = "dijkstra"
  /\ trains = << >>
  /\ result = [op |-> "idle"]
  /\ pair = [prior |-> [t \in TrackIds |-> NoKey]] @@ NoPair
  /\ ops = 0
  /\ NoServer

\* no call is in progress: the caller has taken the value of the last one
Idle == result.op = "idle"

\* graph.disable_track(track_id)
DisableTrack(track_id) ==
  LET r == disable_track(tracks, track_id)
  IN /\ Idle
     /\ track_id \in TrackIds /\ tracks[track_id].status # "disabled"
          => Cardinality({t \in TrackIds : tracks[t].status = "disabled"}) < MaxDisabled
     /\ tracks' = r.tracks
     /\ adjacency_list' = IF r.ok THEN _build_adjacency_list(r.tracks) ELSE adjacency_list
     /\ result' = [op |-> "disable_track", track_id |-> track_id, value |-> r.ok]
     /\ pair' = IF ~r.ok THEN pair
                ELSE IF pair.prior[track_id] # NoKey
                THEN \* a further disable_track of the same run
                     IF pair.phase = "open" /\ pair.track = track_id
                     THEN [pair EXCEPT !.calls = Min(pair.calls + 1, 2)]
                     ELSE [prior |-> pair.prior] @@ NoPair
                ELSE [prior |-> [pair.prior EXCEPT ![track_id] = tracks[track_id].status],
                      phase |-> "open", track |-> track_id, calls |-> 1,
                      adjacency_list |-> adjacency_list]
     /\ UNCHANGED <<server, pathfinding_strategy, trains, ops>>

\* graph.enable_track(track_id)
EnableTrack(track_id) ==
  LET r == enable_track(tracks, track_id)
  IN /\ Idle
     /\ tracks' = r.tracks
     /\ adjacency_list' = IF r.ok THEN _build_adjacency_list(r.tracks) ELSE adjacency_list
     /\ result' = [op |-> "enable_track", track_id |-> track_id, value |-> r.ok,
                   prior_status |-> IF r.ok THEN pair.prior[track_id] ELSE NoKey]
     /\ pair' = IF ~r.ok THEN pair
                ELSE IF pair.phase = "open" /\ pair.track = track_id
                THEN [pair EXCEPT !.phase = "closed", !.prior[track_id] = NoKey]
                ELSE [prior |-> [pair.prior EXCEPT ![track_id] = NoKey]] @@ NoPair
     /\ UNCHANGED <<server, pathfinding_strategy, trains, ops>>

\* optimizer.set_pathfinding_strategy(strategy)
SetPathfindingStrategy(strategy) ==
  /\ Idle
  /\ pathfinding_strategy' =
       IF strategy \in {"dijkstra", "greedy", "astar"} THEN strategy ELSE pathfinding_strategy
  /\ result' = [op |-> "set_pathfinding_strategy", strategy |-> strategy]
  /\ UNCHANGED <<server, tracks, adjacency_list, trains, pair, ops>>

\* optimizer.find_best_route(origin, destination, train_type, criteria)
FindBestRoute(origin, destination, train_type, criteria) ==
  /\ Idle
  /\ result' = [op |-> "find_best_route", origin |-> origin, destination |-> destination,
                train_type |-> train_type, criteria |-> criteria,
                value |-> find_best_route(tracks, adjacency_list, pathfinding_strategy,
                                          origin, destination, train_type, criteria)]
  /\ UNCHANGED <<server, tracks, adjacency_list, pathfinding_strategy, trains, pair, ops>>

\* optimizer.find_alternative_routes(origin, destination, train_type, max_alternatives)
FindAlternativeRoutes(origin, destination, train_type, max_alternatives) ==
  /\ Idle
  /\ result' = [op |-> "find_alternative_routes", origin |-> origin,
                destination |-> destination, train_type |-> train_type,
                max_alternatives |-> max_alternatives,
                value |-> find_alternative_routes(tracks, adjacency_list, pathfinding_strategy,
                                                  origin, destination, train_type,
                                                  max_alternatives)]
  /\ UNCHANGED <<server, tracks, adjacency_list, pathfinding_strategy, trains, pair, ops>>

\* the caller takes the value the call returned; the calls on one graph are
\* sequential, so the next call starts after that
Return ==
  /\ ~Idle
  /\ result' = [op |-> "idle"]
  /\ UNCHANGED <<server, tracks, adjacency_list, pathfinding_strategy, trains, pair, ops>>

NextGraph ==
  \/ \E t \in TrackIds \cup {UnknownTrack} : DisableTrack(t)
  \/ \E t \in TrackIds \cup {UnknownTrack} : EnableTrack(t)
  \/ \E s \in Strategies \cup {"bfs"} : SetPathfindingStrategy(s)
  \/ \E q \in QueryPairs, tt \in QueryTypes, c \in Criteria : FindBestRoute(q[1], q[2], tt, c)
  \/ \E q \in QueryPairs, tt \in QueryTypes, k \in 1..3 :
       FindAlternativeRoutes(q[1], q[2], tt, k)
  \/ Return

SpecGraph == InitGraph /\ [][NextGraph]_vars

(***************************************************************************)
(* Properties of the graph and the pathfinder (SpecGraph).                 *)
(***************************************************************************)

\* C1: disable_track(t), called once or several times, followed by
\* enable_track(t) leaves t with exactly the status it had before the first
\* disable_track(t); and when no other status change came in between, the
\* adjacency list after the pair equals the adjacency list before it.
C1_DisableEnableRestores ==
  /\ (result.op = "enable_track" /\ result.value /\ result.prior_status # NoKey)
       => tracks[result.track_id].status = result.prior_status
  /\ pair.phase = "closed" => adjacency_list = pair.adjacency_list

\* maintenance -> disabled -> disabled -> maintenance
C1_Witness ==
  /\ result.op = "enable_track"
  /\ pair.phase = "closed" /\ pair.calls = 2 /\ pair.track = result.track_id
  /\ result.prior_status = "maintenance"
  /\ tracks[result.track_id].status = "maintenance"

\* a route from origin to destination whose segments chain and whose tracks
\* are all operational in the current graph
RouteWellFormed(route, origin, destination) ==
  /\ route.segments # << >>
  /\ \A i \in 1..(Len(route.segments) - 1) :
       route.segments[i].to_station = route.segments[i + 1].from_station
  /\ route.segments[1].from_station = origin
  /\ route.segments[Len(route.segments)].to_station = destination
  /\ \A i \in DOMAIN route.segments :
       /\ route.segments[i].track_id \in TrackIds
       /\ tracks[route.segments[i].track_id].status = "operational"
       /\ route.segments[i].status = "operational"
       /\ TrackFile[route.segments[i].track_id].from = route.segments[i].from_station
       /\ TrackFile[route.segments[i].track_id].to = route.segments[i].to_station

\* C2: every Route that find_best_route or find_alternative_routes returns,
\* under any strategy and after any sequence of disable_track / enable_track,
\* starts at the requested origin, ends at the requested destination, chains
\* its segments, and uses only tracks that are operational when it is built.
C2_RoutesChainOverOperationalTracks ==
  /\ (result.op = "find_best_route" /\ result.value # None)
       => RouteWellFormed(result.value, result.origin, result.destination)
  /\ result.op = "find_alternative_routes"
       => \A i \in DOMAIN result.value :
            RouteWellFormed(result.value[i], result.origin, result.destination)

\* a route found by the greedy search while a track is disabled and another
\* one has been disabled and enabled again
C2_Witness ==
  /\ result.op = "find_best_route" /\ result.value # None
  /\ pathfinding_strategy = "greedy"
  /\ \E t \in TrackIds : tracks[t].status = "disabled"
  /\ pair.phase = "closed"

(***************************************************************************)
(* Train                                                                   *)
(***************************************************************************)
\* the schedule file: one train_data dict per train, in file order, with
\* Scheduled_Arrival_Time in minutes after midnight of the schedule's day
ScheduleData ==
  <<[Train_ID |-> "12001_SHATABDI", Train_Type |-> "Express",
     Section_Start |-> "NDLS", Section_End |-> "GZB",
     Scheduled_Arrival_Time |-> 600, Time_of_Day |-> "Morning_Peak"],
    [Train_ID |-> "12951_RAJDHANI", Train_Type |-> "Express",
     Section_Start |-> "NDLS", Section_End |-> "GZB",
     Scheduled_Arrival_Time |-> 608, Time_of_Day |-> "Afternoon"],
    [Train_ID |-> "14011_PASSENGER", Train_Type |-> "Passenger",
     Section_Start |-> "ANVR", Section_End |-> "GZB",
     Scheduled_Arrival_Time |-> 618, Time_of_Day |-> "Afternoon"],
    [Train_ID |-> "18205_GOODS", Train_Type |-> "Goods",
     Section_Start |-> "SHZM", Section_End |-> "GZB",
     Scheduled_Arrival_Time |-> 638, Time_of_Day |-> "Night"],
    [Train_ID |-> "64001_LOCAL", Train_Type |-> "Local",
     Section_Start |-> "NDLS", Section_End |-> "ANVR",
     Scheduled_Arrival_Time |-> 615, Time_of_Day |-> "Evening_Peak"]>>

\* the insertion order of the trains dict
TrainOrder == [i \in DOMAIN ScheduleData |-> ScheduleData[i].Train_ID]

TrainIds == {TrainOrder[i] : i \in DOMAIN TrainOrder}

\* a train id that is not in the schedule
UnknownTrain == "00000_NONE"

\* the status strings: f"{kind} ({reason})", f"Halted ({reason}) - {mins} min",
\* f"Rerouted via {reason} route", "On-Time", "Delayed"
Status(kind, reason, mins) == [kind |-> kind, reason |-> reason, mins |-> mins]

\* Train._calculate_priority
_calculate_priority(train_type, time_of_day) ==
  LET base_priority == CASE train_type = "Express" -> 1
                         [] train_type = "Passenger" -> 3
                         [] train_type = "Goods" -> 5
                         [] train_type = "Local" -> 4
                         [] OTHER -> 3
  IN IF time_of_day \in {"Morning_Peak", "Evening_Peak"}
     THEN Max(1, base_priority - 1) ELSE base_priority

\* Train.__init__
Train(train_data) ==
  [train_type |-> train_data.Train_Type,
   section_start |-> train_data.Section_Start,
   section_end |-> train_data.Section_End,
   scheduled_arrival_time |-> train_data.Scheduled_Arrival_Time,
   time_of_day |-> train_data.Time_of_Day,
   weather |-> "Clear",
   track_condition |-> "Normal",
   status |-> Status("On-Time", "", 0),
   actual_delay_mins |-> 0,
   primary_route |-> None,
   alternative_routes |-> << >>,
   current_route |-> None,
   priority |-> _calculate_priority(train_data.Train_Type, train_data.Time_of_Day)]

\* Train.get_eta_at_destination, the eta in minutes after midnight
get_eta_at_destination(train) ==
  LET weather_delay == IF train.weather \in {"Rain", "Fog"} THEN 5 ELSE 0
      track_delay == IF train.track_condition = "Maintenance" THEN 10 ELSE 0
      total_delay == train.actual_delay_mins + weather_delay + track_delay
  IN [destination |-> train.section_end,
      eta |-> train.scheduled_arrival_time + total_delay,
      total_delay_mins |-> total_delay]

\* apply_delay that sets the delay instead of adding to it
apply_delay_overwrite(train, additional_delay_mins, reason) ==
  [train EXCEPT !.actual_delay_mins = additional_delay_mins,
                !.status = IF reason # "Unknown" THEN Status("Delayed", reason, 0)
                           ELSE Status("Delayed", "", 0)]

\* Train.apply_delay
apply_delay(train, additional_delay_mins, reason) ==
  [train EXCEPT !.actual_delay_mins = @ + additional_delay_mins,
                !.status = IF reason # "Unknown" THEN Status("Delayed", reason, 0)
                           ELSE Status("Delayed", "", 0)]

\* a set_routes that also puts the train back on time
set_routes_on_time(train, primary_route, alternative_routes) ==
  [train EXCEPT !.primary_route = primary_route,
                !.alternative_routes = alternative_routes,
                !.current_route = primary_route,
                !.status = Status("On-Time", "", 0),
                !.actual_delay_mins = 0]

\* Train.set_routes
set_routes(train, primary_route, alternative_routes) ==
  [train EXCEPT !.primary_route = primary_route,
                !.alternative_routes = alternative_routes,
                !.current_route = primary_route]

\* the route Python's list indexing alternative_routes[route_index] selects for
\* an index below len: counted from the end when negative, IndexError below -len
ListIndex(len, route_index) ==
  IF route_index >= 0 THEN route_index + 1
  ELSE IF route_index >= -len THEN len + route_index + 1
  ELSE 0

\* a switch that takes the chosen route out of the alternatives
SwitchToAndDrop(train, route) ==
  [train EXCEPT
     !.current_route = route,
     !.alternative_routes = SelectSeq(@, LAMBDA r : r # route),
     !.actual_delay_mins =
        @ + Max(0, route.total_time_minutes -
                   (IF train.primary_route # None
                    THEN train.primary_route.total_time_minutes ELSE 0)),
     !.status = Status("Rerouted", route.route_type, 0)]

\* the train after the assignments of switch_to_alternative_route to route
SwitchTo(train, route) ==
  [train EXCEPT
     !.current_route = route,
     !.actual_delay_mins =
        @ + Max(0, route.total_time_minutes -
                   (IF train.primary_route # None
                    THEN train.primary_route.total_time_minutes ELSE 0)),
     !.status = Status("Rerouted", route.route_type, 0)]

\* Train.switch_to_alternative_route: the return value, the exception raised
\* (if any) and the train afterwards
switch_to_alternative_route(train, route_index) ==
  IF route_index < Len(train.alternative_routes)
  THEN IF ListIndex(Len(train.alternative_routes), route_index) = 0
       THEN [ok |-> FALSE, raised |-> "IndexError", train |-> train]
       ELSE [ok |-> TRUE, raised |-> NoKey,
             train |-> SwitchTo(train,
                         train.alternative_routes[
                           ListIndex(Len(train.alternative_routes), route_index)])]
  ELSE [ok |-> FALSE, raised |-> NoKey, train |-> train]

\* Train.apply_halt
apply_halt(train, halt_duration_mins, reason) ==
  [ok |-> TRUE, raised |-> NoKey,
   train |-> [train EXCEPT !.actual_delay_mins = @ + halt_duration_mins,
                           !.status = Status("Halted", reason, halt_duration_mins)]]

\* Train.apply_cancellation
apply_cancellation(train, reason) ==
  [ok |-> TRUE, raised |-> NoKey,
   train |-> [train EXCEPT !.status = Status("Cancelled", reason, 0)]]

\* int((adjustment_factor - 1.0) * 60) and int((1.0 - adjustment_factor) * 60) for
\* a factor given in hundredths (exact for the multiples of 0.25 used here)
FactorMinutes(hundredths) == (hundredths * 60) \div 100

\* Train.apply_speed_adjustment, the factor in hundredths
apply_speed_adjustment(train, adjustment_factor, reason) ==
  [ok |-> TRUE, raised |-> NoKey,
   train |->
     IF adjustment_factor > 100
     THEN [train EXCEPT !.actual_delay_mins = @ + FactorMinutes(adjustment_factor - 100),
                        !.status = Status("Speed Reduced", reason, 0)]
     ELSE IF adjustment_factor < 100
     THEN [train EXCEPT
             !.actual_delay_mins = Max(0, @ - FactorMinutes(100 - adjustment_factor)),
             !.status = Status("Speed Increased", reason, 0)]
     ELSE train]

(***************************************************************************)
(* RailwayNetwork                                                          *)
(***************************************************************************)
\* the body of the loop of _initialize_train_routes for one train
InitializeTrain(train, primary_route, alternative_routes) ==
  IF primary_route # None
  THEN set_routes(train, primary_route,
                  SelectSeq(alternative_routes, LAMBDA r : r # primary_route))
  ELSE train

\* RailwayNetwork._initialize_train_routes
_initialize_train_routes(trs, trk, adj, strategy) ==
  [t \in DOMAIN trs |->
     InitializeTrain(trs[t],
                     find_best_route(trk, adj, strategy, trs[t].section_start,
                                     trs[t].section_end, trs[t].train_type, "time"),
                     find_alternative_routes(trk, adj, strategy, trs[t].section_start,
                                             trs[t].section_end, trs[t].train_type, 2))]

\* RailwayNetwork._handle_train_event; weather and track_condition are NoKey
\* when the event has no such key
_handle_train_event(trs, train_id, delay_minutes, weather, track_condition) ==
  IF train_id \notin DOMAIN trs THEN [ok |-> FALSE, trains |-> trs]
  ELSE [ok |-> TRUE,
        trains |->
          [trs EXCEPT ![train_id] =
             [apply_delay(@, delay_minutes, "Reported disruption") EXCEPT
                !.weather = IF weather # NoKey THEN weather ELSE @,
                !.track_condition = IF track_condition # NoKey THEN track_condition ELSE @]]]

\* a lookup of the affected trains that finds none
_find_trains_using_track_none(trs, track_id) == {}

\* RailwayNetwork._find_trains_using_track
_find_trains_using_track(trs, track_id) ==
  {t \in DOMAIN trs :
     /\ trs[t].current_route # None
     /\ \E i \in DOMAIN trs[t].current_route.segments :
          trs[t].current_route.segments[i].track_id = track_id}

\* the body of the loop of _handle_track_failure_event for one affected train
Replan(train, alternative_routes) ==
  IF alternative_routes # << >>
  THEN [train EXCEPT !.alternative_routes = alternative_routes]
  ELSE train

\* _handle_track_failure_event after disable_track has returned d
AfterDisable(trs, trk, strategy, track_id, d) ==
  IF d.ok
  THEN [ok |-> TRUE, tracks |-> d.tracks,
        trains |->
          [t \in DOMAIN trs |->
             IF t \in _find_trains_using_track(trs, track_id)
             THEN Replan(trs[t],
                         find_alternative_routes(d.tracks, _build_adjacency_list(d.tracks),
                                                 strategy, trs[t].section_start,
                                                 trs[t].section_end, trs[t].train_type, 3))
             ELSE trs[t]]]
  ELSE [ok |-> FALSE, tracks |-> trk, trains |-> trs]

\* a track failure handler that reports success when the event names no track
_handle_track_failure_event_lenient(trs, trk, strategy, track_id) ==
  IF track_id = NoKey THEN [ok |-> TRUE, tracks |-> trk, trains |-> trs]
  ELSE AfterDisable(trs, trk, strategy, track_id, disable_track(trk, track_id))

\* RailwayNetwork._handle_track_failure_event; track_id is NoKey when the event
\* has no track_id
_handle_track_failure_event(trs, trk, strategy, track_id) ==
  IF track_id = NoKey THEN [ok |-> FALSE, tracks |-> trk, trains |-> trs]
  ELSE AfterDisable(trs, trk, strategy, track_id, disable_track(trk, track_id))

\* a repair that recalculates the routes on the network as it was before the
\* track was enabled
AfterEnableStaleRoutes(trs, trk, strategy, e) ==
  IF e.ok
  THEN [ok |-> TRUE, tracks |-> e.tracks,
        trains |-> _initialize_train_routes(trs, trk, _build_adjacency_list(trk), strategy)]
  ELSE [ok |-> FALSE, tracks |-> trk, trains |-> trs]

\* _handle_track_repair_event after enable_track has returned e
AfterEnable(trs, trk, strategy, e) ==
  IF e.ok
  THEN [ok |-> TRUE, tracks |-> e.tracks,
        trains |-> _initialize_train_routes(trs, e.tracks, _build_adjacency_list(e.tracks),
                                            strategy)]
  ELSE [ok |-> FALSE, tracks |-> trk, trains |-> trs]

\* RailwayNetwork._handle_track_repair_event
_handle_track_repair_event(trs, trk, strategy, track_id) ==
  IF track_id = NoKey THEN [ok |-> FALSE, tracks |-> trk, trains |-> trs]
  ELSE AfterEnable(trs, trk, strategy, enable_track(trk, track_id))

\* the tail of apply_action: the train method has returned r
Applied(trs, train_id, r) ==
  [ok |-> r.ok, raised |-> r.raised, trains |-> [trs EXCEPT ![train_id] = r.train]]

\* RailwayNetwork.apply_action; arg is duration_mins, route_index or speed_factor
\* (in hundredths), train_id is NoKey when the action has no train_id
apply_action(trs, action_type, train_id, arg) ==
  IF train_id = NoKey \/ train_id \notin DOMAIN trs
  THEN [ok |-> FALSE, raised |-> NoKey, trains |-> trs]
  ELSE CASE action_type = "Halt" ->
              Applied(trs, train_id, apply_halt(trs[train_id], arg, "AI Optimization"))
         [] action_type = "Reroute" ->
              Applied(trs, train_id, switch_to_alternative_route(trs[train_id], arg))
         [] action_type = "Cancel" ->
              Applied(trs, train_id, apply_cancellation(trs[train_id], "AI Optimization"))
         [] action_type = "SpeedAdjust" ->
              Applied(trs, train_id,
                      apply_speed_adjustment(trs[train_id], arg, "AI Optimization"))
         [] OTHER -> [ok |-> FALSE, raised |-> NoKey, trains |-> trs]

\* network_status of RailwayNetwork.get_state_snapshot, health from operational_tracks
network_status_all_operational(trk) ==
  [total_stations |-> Cardinality(stations(trk)),
   total_tracks |-> Cardinality(DOMAIN trk),
   operational_tracks |-> Cardinality({t \in DOMAIN trk : trk[t].status = "operational"}),
   failed_tracks |-> Cardinality({t \in DOMAIN trk : trk[t].status = "disabled"}),
   network_health |->
     IF \A t \in DOMAIN trk : trk[t].status = "operational" THEN "healthy" ELSE "degraded"]

\* network_status of RailwayNetwork.get_state_snapshot
network_status(trk) ==
  [total_stations |-> Cardinality(stations(trk)),
   total_tracks |-> Cardinality(DOMAIN trk),
   operational_tracks |-> Cardinality({t \in DOMAIN trk : trk[t].status = "operational"}),
   failed_tracks |-> Cardinality({t \in DOMAIN trk : trk[t].status = "disabled"}),
   network_health |->
     IF Cardinality({t \in DOMAIN trk : trk[t].status = "disabled"}) = 0
     THEN "healthy" ELSE "degraded"]

\* get_current_route_info()["route_status"] of a train
route_status(train) == IF train.current_route = None THEN "no_route" ELSE "active"

\* RailwayNetwork.get_state_snapshot: the per-train status and the network status
get_state_snapshot(trs, trk) ==
  [trains |-> [t \in DOMAIN trs |->
                 [status |-> trs[t].status,
                  current_delay_mins |-> trs[t].actual_delay_mins,
                  weather |-> trs[t].weather,
                  track_condition |-> trs[t].track_condition,
                  route_status |-> route_status(trs[t])]],
   network_status |-> network_status(trk)]

\* the keys of the trains dict in insertion order (the order of the schedule)
TrainsInOrder(trs) == SelectSeq(TrainOrder, LAMBDA t : t \in DOMAIN trs)

\* one entry of the list get_all_train_etas returns
EtaInfo(train_id, train) ==
  [train_id |-> train_id,
   train_type |-> train.train_type,
   priority |-> train.priority,
   destination |-> get_eta_at_destination(train).destination,
   eta |-> get_eta_at_destination(train).eta,
   total_delay_mins |-> get_eta_at_destination(train).total_delay_mins,
   weather |-> train.weather,
   track_condition |-> train.track_condition]

\* RailwayNetwork.get_all_train_etas: every train has a valid ETA and is listed,
\* whatever its status, in the order of the trains dict
get_all_train_etas(trs) ==
  [i \in DOMAIN TrainsInOrder(trs) |->
     EtaInfo(TrainsInOrder(trs)[i], trs[TrainsInOrder(trs)[i]])]

(***************************************************************************)
(* MultiStrategyOptimizer (conflict detection is the same code in          *)
(* Optimizer)                                                              *)
(***************************************************************************)
\* a required buffer that ignores the train types and the conditions
_calculate_required_buffer_flat(train1, train2) == 10

\* _calculate_required_buffer
_calculate_required_buffer(train1, train2) ==
  LET both_express == train1.train_type = "Express" /\ train2.train_type = "Express"
      either_goods == train1.train_type = "Goods" \/ train2.train_type = "Goods"
      express_buffer == IF both_express THEN 8 ELSE 10
      base_buffer == IF either_goods THEN 20 ELSE express_buffer
  IN base_buffer
       + (IF train1.weather \in {"Rain", "Fog"} \/ train2.weather \in {"Rain", "Fog"}
          THEN 5 ELSE 0)
       + (IF train1.track_condition = "Maintenance" \/ train2.track_condition = "Maintenance"
          THEN 10 ELSE 0)

\* MultiStrategyOptimizer._calculate_conflict_severity; time_diff < 0.3 * buffer
\* and time_diff < 0.6 * buffer compared in tenths
_calculate_conflict_severity(train1, train2, time_diff, required_buffer) ==
  LET severity_score ==
        (IF 10 * time_diff < 3 * required_buffer THEN 3
         ELSE IF 10 * time_diff < 6 * required_buffer THEN 2 ELSE 1)
        + (IF train1.priority <= 2 \/ train2.priority <= 2 THEN 1 ELSE 0)
        + (IF train1.weather # "Clear" \/ train2.weather # "Clear" THEN 1 ELSE 0)
  IN IF severity_score >= 5 THEN "Critical"
     ELSE IF severity_score >= 3 THEN "High"
     ELSE IF severity_score >= 2 THEN "Medium" ELSE "Low"

RECURSIVE InsertByEta(_, _)
\* insertion of e into the eta-sorted list s after the elements of equal eta
InsertByEta(s, e) ==
  IF s = << >> THEN <<e>>
  ELSE IF e.eta < Head(s).eta THEN <<e>> \o s
  ELSE <<Head(s)>> \o InsertByEta(Tail(s), e)

RECURSIVE SortByEta(_)
\* arriving_trains.sort(key=lambda x: x['eta']): stable
SortByEta(s) ==
  IF s = << >> THEN << >>
  ELSE InsertByEta(SortByEta(SubSeq(s, 1, Len(s) - 1)), s[Len(s)])

RECURSIVE Destinations(_, _)
\* the keys of section_bookings in insertion order
Destinations(train_etas, acc) ==
  IF train_etas = << >> THEN acc
  ELSE Destinations(Tail(train_etas),
                    IF \E i \in DOMAIN acc : acc[i] = Head(train_etas).destination
                    THEN acc ELSE Append(acc, Head(train_etas).destination))

\* the conflict dict built for train1, train2 with the buffer computed for them
Conflict(destination, train1, train2, buffer_time) ==
  [location |-> destination,
   affected_trains |-> <<train1.train_id, train2.train_id>>,
   time_gap_minutes |-> train2.eta - train1.eta,
   required_buffer_minutes |-> buffer_time,
   severity |-> _calculate_conflict_severity(train1, train2, train2.eta - train1.eta,
                                             buffer_time)]

RECURSIVE PairConflicts(_, _, _)
\* the loop over the consecutive pairs of the sorted arriving_trains, from pair i
PairConflicts(destination, arriving_trains, i) ==
  IF i >= Len(arriving_trains) THEN << >>
  ELSE (IF arriving_trains[i + 1].eta - arriving_trains[i].eta
             < _calculate_required_buffer(arriving_trains[i], arriving_trains[i + 1])
        THEN <<Conflict(destination, arriving_trains[i], arriving_trains[i + 1],
                        _calculate_required_buffer(arriving_trains[i],
                                                   arriving_trains[i + 1]))>>
        ELSE << >>)
       \o PairConflicts(destination, arriving_trains, i + 1)

RECURSIVE DestinationConflicts(_, _, _)
\* the loop over section_bookings, from the k-th destination
DestinationConflicts(train_etas, destinations, k) ==
  IF k > Len(destinations) THEN << >>
  ELSE PairConflicts(destinations[k],
                     SortByEta(SelectSeq(train_etas,
                                         LAMBDA e : e.destination = destinations[k])),
                     1)
       \o DestinationConflicts(train_etas, destinations, k + 1)

\* _detect_conflicts (Optimizer and MultiStrategyOptimizer)
_detect_conflicts(trs) ==
  IF Len(get_all_train_etas(trs)) < 2 THEN << >>
  ELSE DestinationConflicts(get_all_train_etas(trs),
                            Destinations(get_all_train_etas(trs), << >>), 1)

\* Optimizer._calculate_conflict_severity: the version of the single-recommendation
\* optimizer, with the track_condition and time_of_day terms; train1 and train2
\* are eta dicts, read with .get
Optimizer_calculate_conflict_severity(train1, train2, time_diff, required_buffer) ==
  LET Peak == {"Morning_Peak", "Evening_Peak"}
      severity_score ==
        (IF 10 * time_diff < 3 * required_buffer THEN 3
         ELSE IF 10 * time_diff < 6 * required_buffer THEN 2 ELSE 1)
        + (IF Get(train1, "priority", 3) <= 2 \/ Get(train2, "priority", 3) <= 2
           THEN 1 ELSE 0)
        + (IF Get(train1, "weather", NoKey) # "Clear"
              \/ Get(train2, "weather", NoKey) # "Clear" THEN 1 ELSE 0)
        + (IF Get(train1, "track_condition", NoKey) = "Maintenance"
              \/ Get(train2, "track_condition", NoKey) = "Maintenance" THEN 1 ELSE 0)
        + (IF Get(train1, "time_of_day", NoKey) \in Peak
              \/ Get(train2, "time_of_day", NoKey) \in Peak THEN 1 ELSE 0)
  IN IF severity_score >= 5 THEN "Critical"
     ELSE IF severity_score >= 3 THEN "High"
     ELSE IF severity_score >= 2 THEN "Medium" ELSE "Low"

\* Optimizer._detect_conflicts: the grouping, the sort, the buffer and the test
\* of the consecutive pairs are the statements of MultiStrategyOptimizer's
\* detector; the severity is computed by Optimizer's own function
Optimizer_detect_conflicts(trs) ==
  [i \in DOMAIN _detect_conflicts(trs) |->
     LET conflict == _detect_conflicts(trs)[i]
         train1 == EtaInfo(conflict.affected_trains[1], trs[conflict.affected_trains[1]])
         train2 == EtaInfo(conflict.affected_trains[2], trs[conflict.affected_trains[2]])
     IN [conflict EXCEPT !.severity =
           Optimizer_calculate_conflict_severity(train1, train2, train2.eta - train1.eta,
                                                 conflict.required_buffer_minutes)]]

\* MultiStrategyOptimizer._calculate_optimal_halt_durations
_calculate_optimal_halt_durations(train, required_buffer) ==
  LET base_durations ==
        CASE train.train_type = "Express" -> <<5, 10, required_buffer>>
          [] train.train_type = "Passenger" -> <<10, 15, required_buffer + 5>>
          [] train.train_type = "Goods" -> <<15, 20, 30, required_buffer + 10>>
          [] OTHER -> <<10, 15, 20>>
      extra == (IF train.weather \in {"Rain", "Fog"} THEN 5 ELSE 0)
               + (IF train.track_condition = "Maintenance" THEN 10 ELSE 0)
  IN [i \in DOMAIN base_durations |-> base_durations[i] + extra]

\* the solutions _generate_solutions appends for one affected train
SolutionsFor(train_id, train, required_buffer) ==
  [i \in DOMAIN _calculate_optimal_halt_durations(train, required_buffer) |->
     [action_type |-> "Halt", train_id |-> train_id,
      duration_mins |-> _calculate_optimal_halt_durations(train, required_buffer)[i]]]
  \o (IF train.train_type = "Express" /\ train.priority <= 2
      THEN <<[action_type |-> "SpeedAdjust", train_id |-> train_id,
              duration_mins |-> required_buffer \div 2]>>
      ELSE << >>)
  \o (IF (train.train_type \in {"Goods", "Local"} \/ train.priority >= 4)
         /\ Len(train.alternative_routes) > 0
      THEN [i \in DOMAIN train.alternative_routes |->
              [action_type |-> "Reroute", train_id |-> train_id,
               duration_mins |->
                 Max(0, train.alternative_routes[i].total_time_minutes
                        - (IF train.current_route # None
                           THEN train.current_route.total_time_minutes ELSE 0)),
               route_index |-> i - 1]]
      ELSE << >>)
  \o (IF train.priority = 5 /\ train.train_type = "Goods"
      THEN <<[action_type |-> "Cancel", train_id |-> train_id, duration_mins |-> 0]>>
      ELSE << >>)

\* MultiStrategyOptimizer._generate_solutions
_generate_solutions(conflict, trs) ==
  (IF conflict.affected_trains[1] \in DOMAIN trs
   THEN SolutionsFor(conflict.affected_trains[1], trs[conflict.affected_trains[1]],
                     conflict.required_buffer_minutes)
   ELSE << >>)
  \o (IF conflict.affected_trains[2] \in DOMAIN trs
      THEN SolutionsFor(conflict.affected_trains[2], trs[conflict.affected_trains[2]],
                        conflict.required_buffer_minutes)
      ELSE << >>)

\* _get_balanced_weights, _get_punctuality_weights, _get_throughput_weights:
\* the weights of self.strategies, in tenths
StrategyWeights ==
  [balanced |->
     [express_priority_multiplier |-> 10, passenger_priority_multiplier |-> 10,
      goods_priority_multiplier |-> 10, halt_penalty_multiplier |-> 10,
      reroute_penalty_multiplier |-> 10, cancel_penalty_multiplier |-> 10,
      peak_hour_multiplier |-> 10],
   punctuality |->
     [express_priority_multiplier |-> 6, passenger_priority_multiplier |-> 7,
      goods_priority_multiplier |-> 15, halt_penalty_multiplier |-> 13,
      reroute_penalty_multiplier |-> 8, cancel_penalty_multiplier |-> 9,
      peak_hour_multiplier |-> 5],
   throughput |->
     [express_priority_multiplier |-> 13, passenger_priority_multiplier |-> 12,
      goods_priority_multiplier |-> 5, halt_penalty_multiplier |-> 8,
      reroute_penalty_multiplier |-> 11, cancel_penalty_multiplier |-> 10,
      peak_hour_multiplier |-> 12]]

\* self.priority_weights.get(priority, 50) with the default PRIORITY_WEIGHTS
PRIORITY_WEIGHTS(priority) ==
  CASE priority = 1 -> 100 [] priority = 2 -> 80 [] priority = 3 -> 50
    [] priority = 4 -> 20 [] priority = 5 -> 5 [] OTHER -> 50

\* round(n / d, 2) in hundredths, for n / d given in units of 1 / (100 * d): to
\* the nearest hundredth, an exact half to the even one
RoundHalfEven(n, d) ==
  IF 2 * (n % d) < d THEN n \div d
  ELSE IF 2 * (n % d) > d THEN n \div d + 1
  ELSE IF (n \div d) % 2 = 0 THEN n \div d ELSE n \div d + 1

\* a score that leaves the cost of the action type out: the duration penalty only
_calculate_strategy_score_duration_only(solution, train, weights) ==
  RoundHalfEven(
    solution.duration_mins
      * (CASE train.train_type = "Express" -> 15 [] train.train_type = "Goods" -> 5
           [] OTHER -> 10)
      * PRIORITY_WEIGHTS(train.priority)
      * (IF train.time_of_day \in {"Morning_Peak", "Evening_Peak"}
         THEN weights.peak_hour_multiplier ELSE 10) * 10,
    20)

\* MultiStrategyOptimizer._calculate_strategy_score, in hundredths. action_cost
\* and duration_penalty are in twentieths, priority_multiplier and
\* peak_adjustment in tenths, so that their product is exact in 1/2000.
_calculate_strategy_score(solution, train, weights) ==
  LET action_cost ==
        CASE solution.action_type = "Halt" -> 2 * weights.halt_penalty_multiplier
          [] solution.action_type = "SpeedAdjust" -> 1 * 10
          [] solution.action_type = "Reroute" -> 10 * weights.reroute_penalty_multiplier
          [] solution.action_type = "Cancel" -> 100 * weights.cancel_penalty_multiplier
          [] OTHER -> 2 * 10
      priority_multiplier ==
        PRIORITY_WEIGHTS(train.priority)
          * (CASE train.train_type = "Express" -> weights.express_priority_multiplier
               [] train.train_type = "Passenger" -> weights.passenger_priority_multiplier
               [] train.train_type = "Goods" -> weights.goods_priority_multiplier
               [] OTHER -> 10)
      duration_penalty ==
        solution.duration_mins
          * (CASE train.train_type = "Express" -> 15 [] train.train_type = "Goods" -> 5
               [] OTHER -> 10)
      peak_adjustment ==
        IF train.time_of_day \in {"Morning_Peak", "Evening_Peak"}
        THEN weights.peak_hour_multiplier ELSE 10
  IN RoundHalfEven((action_cost + duration_penalty) * priority_multiplier
                     * peak_adjustment, 20)

\* MultiStrategyOptimizer._evaluate_with_strategy: building the scored entry of
\* the first solution whose train exists reads train.name, an attribute Train
\* does not have; with no such solution the result is the empty dict
_evaluate_with_strategy(solutions, trs) ==
  IF \E i \in DOMAIN solutions : solutions[i].train_id \in DOMAIN trs
  THEN [raised |-> "AttributeError", recommendation |-> [action |-> None]]
  ELSE [raised |-> NoKey, recommendation |-> [action |-> None]]

\* _run_strategy once the conflicts are detected
Resolve(conflicts, trs, strategy_key) ==
  IF conflicts = << >>
  THEN [raised |-> NoKey, status |-> "NoConflict", strategy |-> strategy_key,
        recommendation |-> [action |-> None]]
  ELSE IF _generate_solutions(conflicts[1], trs) = << >>
  THEN [raised |-> NoKey, status |-> "NoSolution", strategy |-> strategy_key,
        recommendation |-> [action |-> None]]
  ELSE [raised |-> _evaluate_with_strategy(_generate_solutions(conflicts[1], trs), trs).raised,
        status |-> "ConflictFound", strategy |-> strategy_key,
        recommendation |->
          _evaluate_with_strategy(_generate_solutions(conflicts[1], trs), trs).recommendation]

\* MultiStrategyOptimizer._run_strategy: the result dict, or the exception raised
_run_strategy(trs, strategy_key) == Resolve(_detect_conflicts(trs), trs, strategy_key)

\* the keys of self.strategies in insertion order
StrategyOrder == <<"balanced", "punctuality", "throughput">>

\* The objects a run works on. heap[ref] is the RailwayNetwork object ref refers
\* to; the network passed to the run is heap[1].
\* a "copy" that hands back the reference it was given
reference_copy(heap, ref) == [heap |-> heap, ref |-> ref]

\* copy.deepcopy(network): a new object with equal contents
deepcopy(heap, ref) == [heap |-> Append(heap, heap[ref]), ref |-> Len(heap) + 1]

RECURSIVE StrategyLoop(_, _, _, _, _)
\* the loop body of run_all_strategies for the k-th strategy: sim_network is
\* the copy just made, r what _run_strategy did on it
StrategyStep(sim_network, network_model, k, sims, results, r) ==
  IF r.raised # NoKey
  THEN [raised |-> r.raised, heap |-> sim_network.heap,
        sim_networks |-> Append(sims, sim_network.ref), results |-> results]
  ELSE StrategyLoop(sim_network.heap, network_model, k + 1,
                    Append(sims, sim_network.ref), Append(results, r))

\* _run_strategy on the copy just made
StrategyRun(sim_network, network_model, k, sims, results) ==
  StrategyStep(sim_network, network_model, k, sims, results,
               _run_strategy(sim_network.heap[sim_network.ref].trains, StrategyOrder[k]))

\* the loop of run_all_strategies from the k-th strategy on
StrategyLoop(heap, network_model, k, sims, results) ==
  IF k > Len(StrategyOrder)
  THEN [raised |-> NoKey, heap |-> heap, sim_networks |-> sims, results |-> results]
  ELSE StrategyRun(deepcopy(heap, network_model), network_model, k, sims, results)

\* MultiStrategyOptimizer.run_all_strategies
run_all_strategies(heap, network_model) ==
  StrategyLoop(heap, network_model, 1, << >>, << >>)

\* the argument apply_action reads from a generated solution (a SpeedAdjust
\* solution has no speed_factor key: the default 1.0 applies)
ActionArg(action) ==
  CASE action.action_type = "Halt" -> action.duration_mins
    [] action.action_type = "Reroute" -> action.route_index
    [] action.action_type = "SpeedAdjust" -> 100
    [] OTHER -> 0

\* the strategy network after the branch of generate_strategy_schedules that
\* applies the recommended action (when there is one) to it
ApplyRecommendation(heap, ref, strategy_result) ==
  IF strategy_result.status = "ConflictFound" /\ strategy_result.recommendation.action # None
  THEN [heap EXCEPT ![ref].trains =
          apply_action(@, strategy_result.recommendation.action.action_type,
                       strategy_result.recommendation.action.train_id,
                       ActionArg(strategy_result.recommendation.action)).trains]
  ELSE heap

RECURSIVE ScheduleLoop(_, _, _, _, _)
\* the loop body of generate_strategy_schedules on the copy just made
ScheduleStep(strategy_network, network_model, k, run, nets) ==
  ScheduleLoop(ApplyRecommendation(strategy_network.heap, strategy_network.ref,
                                   run.results[k]),
               network_model, k + 1, run, Append(nets, strategy_network.ref))

\* the loop of generate_strategy_schedules over strategy_results, from the k-th
ScheduleLoop(heap, network_model, k, run, nets) ==
  IF k > Len(run.results)
  THEN [raised |-> NoKey, heap |-> heap, sim_networks |-> run.sim_networks,
        strategy_networks |-> nets,
        statuses |-> [i \in DOMAIN run.results |-> run.results[i].status]]
  ELSE ScheduleStep(deepcopy(heap, network_model), network_model, k, run, nets)

\* generate_strategy_schedules after run_all_strategies has returned or raised
AfterRun(network_model, run) ==
  IF run.raised # NoKey
  THEN [raised |-> run.raised, heap |-> run.heap, sim_networks |-> run.sim_networks,
        strategy_networks |-> << >>,
        statuses |-> [i \in DOMAIN run.results |-> run.results[i].status]]
  ELSE ScheduleLoop(run.heap, network_model, 1, run, << >>)

\* MultiStrategyOptimizer.generate_strategy_schedules
generate_strategy_schedules(heap, network_model) ==
  AfterRun(network_model, run_all_strategies(heap, network_model))

(***************************************************************************)
(* The digital twin: one RailwayNetwork, driven through apply_event,       *)
(* apply_action, get_state_snapshot and the optimizer.                     *)
(***************************************************************************)
\* (delay_minutes, weather, track_condition) of the delay events reported
DelayInputs == {<<5, NoKey, NoKey>>, <<12, "Rain", NoKey>>, <<0, NoKey, "Maintenance">>}

\* the tracks the track_failure and track_repair events name
EventTracks == {"NDLS_ANVR_MAIN", "ANVR_GZB_MAIN", "NDLS_SBB_ALT"}

\* the trains the actions name
ActionTrains == {"12001_SHATABDI", "18205_GOODS"}

\* (action_type, duration_mins / route_index / speed_factor in hundredths)
ActionInputs ==
  {<<"Halt", -5>>, <<"Halt", 10>>, <<"Reroute", -1>>, <<"Reroute", 0>>, <<"Reroute", 3>>,
   <<"Cancel", 0>>, <<"SpeedAdjust", 0>>, <<"SpeedAdjust", 50>>, <<"SpeedAdjust", 150>>,
   <<"Teleport", 0>>}

\* RailwayNetwork.__init__
Init ==
  /\ \E maint \in MaintenanceInFile :
       /\ tracks = _load_network(maint)
       /\ adjacency_list = _build_adjacency_list(_load_network(maint))
       /\ trains = _initialize_train_routes(
                     [t \in TrainIds |->
                        Train(ScheduleData[CHOOSE i \in DOMAIN ScheduleData :
                                             ScheduleData[i].Train_ID = t])],
                     _load_network(maint), _build_adjacency_list(_load_network(maint)),
                     "dijkstra")
  /\ pathfinding_strategy = "dijkstra"
  /\ result = [op |-> "idle"]
  /\ pair = [prior |-> [t \in TrackIds |-> NoKey]] @@ NoPair
  /\ ops = 0
  /\ NoServer

\* the state a call started in
Before == [trains |-> trains, tracks |-> tracks, adjacency_list |-> adjacency_list]

\* network.apply_event({train_id, delay_minutes[, weather][, track_condition]})
DelayEvent(train_id, delay_minutes, weather, track_condition) ==
  LET r == _handle_train_event(trains, train_id, delay_minutes, weather, track_condition)
  IN /\ Idle /\ ops < MaxOps
     /\ trains' = r.trains
     /\ result' = [op |-> "apply_event", event_type |-> "delay", train_id |-> train_id,
                   delay_minutes |-> delay_minutes, weather |-> weather,
                   track_condition |-> track_condition, value |-> r.ok, before |-> Before]
     /\ ops' = IF r.ok THEN ops + 1 ELSE ops
     /\ UNCHANGED <<server, tracks, adjacency_list, pathfinding_strategy, pair>>

\* the history of the last track_failure / track_repair pair after a
\* track_failure event on track_id: a failure of a track that was not disabled
\* opens a pair and records the primary routes of that moment
FailurePair(track_id, ok) ==
  IF ~ok \/ track_id \notin DOMAIN tracks THEN pair
  ELSE IF tracks[track_id].status = "disabled"
  THEN IF pair.phase = "open" /\ pair.track = track_id THEN pair
       ELSE [prior |-> pair.prior] @@ NoPair
  ELSE [prior |-> pair.prior, phase |-> "open", track |-> track_id, calls |-> 1,
        adjacency_list |-> << >>,
        primary_routes |-> [t \in DOMAIN trains |-> trains[t].primary_route]]

\* the history after a track_repair event on track_id: it closes the pair open
\* on track_id; any other change of a track's status ends the pair
RepairPair(track_id, ok) ==
  IF ~ok THEN pair
  ELSE IF pair.phase = "open" /\ pair.track = track_id
  THEN [pair EXCEPT !.phase = "closed"]
  ELSE [prior |-> pair.prior] @@ NoPair

\* network.apply_event({event_type: track_failure[, track_id]})
TrackFailure(track_id) ==
  LET r == _handle_track_failure_event(trains, tracks, pathfinding_strategy, track_id)
  IN /\ Idle
     /\ trains' = r.trains
     /\ tracks' = r.tracks
     /\ adjacency_list' = IF r.ok THEN _build_adjacency_list(r.tracks) ELSE adjacency_list
     /\ result' = [op |-> "apply_event", event_type |-> "track_failure",
                   track_id |-> track_id, value |-> r.ok, before |-> Before]
     /\ pair' = FailurePair(track_id, r.ok)
     /\ ops' = IF r.ok THEN ops + 1 ELSE ops
     /\ UNCHANGED <<server, pathfinding_strategy>>

\* network.apply_event({event_type: track_repair[, track_id]})
TrackRepair(track_id) ==
  LET r == _handle_track_repair_event(trains, tracks, pathfinding_strategy, track_id)
  IN /\ Idle
     /\ trains' = r.trains
     /\ tracks' = r.tracks
     /\ adjacency_list' = IF r.ok THEN _build_adjacency_list(r.tracks) ELSE adjacency_list
     /\ result' = [op |-> "apply_event", event_type |-> "track_repair",
                   track_id |-> track_id, value |-> r.ok, before |-> Before]
     /\ pair' = RepairPair(track_id, r.ok)
     /\ ops' = IF r.ok THEN ops + 1 ELSE ops
     /\ UNCHANGED <<server, pathfinding_strategy>>

\* a track_failure event among the events and actions of the twin
TrackFailureEvent(track_id) == ops < MaxOps /\ TrackFailure(track_id)

\* a track_repair event among the events and actions of the twin
TrackRepairEvent(track_id) == ops < MaxOps /\ TrackRepair(track_id)

\* network.apply_action({action_type[, train_id], duration_mins / route_index /
\* speed_factor})
ApplyAction(action_type, train_id, arg) ==
  LET r == apply_action(trains, action_type, train_id, arg)
  IN /\ Idle /\ ops < MaxOps
     /\ trains' = r.trains
     /\ result' = [op |-> "apply_action", action_type |-> action_type,
                   train_id |-> train_id, arg |-> arg, value |-> r.ok,
                   raised |-> r.raised, before |-> Before]
     /\ ops' = IF r.ok THEN ops + 1 ELSE ops
     /\ UNCHANGED <<server, tracks, adjacency_list, pathfinding_strategy, pair>>

\* network.get_state_snapshot()
GetStateSnapshot ==
  /\ Idle
  /\ result' = [op |-> "get_state_snapshot", value |-> get_state_snapshot(trains, tracks)]
  /\ UNCHANGED <<server, tracks, adjacency_list, pathfinding_strategy, trains, pair, ops>>

\* optimizer._detect_conflicts(network, 60)
DetectConflicts ==
  /\ Idle
  /\ result' = [op |-> "_detect_conflicts", value |-> _detect_conflicts(trains)]
  /\ UNCHANGED <<server, tracks, adjacency_list, pathfinding_strategy, trains, pair, ops>>

\* optimizer._detect_conflicts(network, projection_horizon_mins), as
\* Optimizer.find_and_resolve_conflicts calls it
OptimizerDetectConflicts ==
  /\ Idle
  /\ result' = [op |-> "Optimizer._detect_conflicts",
                value |-> Optimizer_detect_conflicts(trains)]
  /\ UNCHANGED <<server, tracks, adjacency_list, pathfinding_strategy, trains, pair, ops>>

\* multi_strategy_optimizer.generate_strategy_schedules(network): the network is
\* object 1 of the heap the run works on
GenerateStrategySchedules ==
  LET g == generate_strategy_schedules(<<[trains |-> trains, tracks |-> tracks]>>, 1)
  IN /\ Idle
     /\ trains' = g.heap[1].trains
     /\ tracks' = g.heap[1].tracks
     /\ result' = [op |-> "generate_strategy_schedules", raised |-> g.raised,
                   network_model |-> 1, sim_networks |-> g.sim_networks,
                   strategy_networks |-> g.strategy_networks, heap |-> g.heap,
                   statuses |-> g.statuses, before |-> Before]
     /\ UNCHANGED <<server, adjacency_list, pathfinding_strategy, pair, ops>>

Next ==
  \/ \E t \in TrainIds, d \in DelayInputs : DelayEvent(t, d[1], d[2], d[3])
  \/ \E t \in {UnknownTrain, NoKey} : DelayEvent(t, 5, "Rain", "Maintenance")
  \/ \E t \in EventTracks \cup {UnknownTrack, NoKey} : TrackFailureEvent(t)
  \/ \E t \in EventTracks \cup {UnknownTrack, NoKey} : TrackRepairEvent(t)
  \/ \E t \in ActionTrains, a \in ActionInputs : ApplyAction(a[1], t, a[2])
  \/ \E t \in {UnknownTrain, NoKey} : ApplyAction("Halt", t, 10)
  \/ GetStateSnapshot
  \/ DetectConflicts
  \/ GenerateStrategySchedules
  \/ Return

Spec == Init /\ [][Next]_vars

(***************************************************************************)
(* The digital twin loaded with a two-train schedule: an Express and a     *)
(* Goods train that end at the same station at most one minute apart.      *)
(***************************************************************************)
\* the two-train schedules: 12001_SHATABDI arrives at 10:00, 18205_GOODS one
\* minute before, with or one minute after it
TwoTrainSchedules ==
  {<<[Train_ID |-> "12001_SHATABDI", Train_Type |-> "Express",
      Section_Start |-> "ANVR", Section_End |-> "NDLS",
      Scheduled_Arrival_Time |-> 600, Time_of_Day |-> tod1],
     [Train_ID |-> "18205_GOODS", Train_Type |-> "Goods",
      Section_Start |-> "GZB", Section_End |-> "NDLS",
      Scheduled_Arrival_Time |-> 600 + gap, Time_of_Day |-> tod2]>> :
     tod1 \in {"Morning_Peak", "Afternoon"}, tod2 \in {"Night", "Evening_Peak"},
     gap \in {-1, 0, 1}}

\* (delay_minutes, weather, track_condition) of the delay events reported
TwoTrainDelays ==
  {<<25, "Fog", NoKey>>, <<0, NoKey, "Maintenance">>, <<1, NoKey, NoKey>>}

\* (action_type, duration_mins) of the solutions scored
ScoreInputs ==
  {<<"Halt", 5>>, <<"Halt", 15>>, <<"Halt", 30>>, <<"Cancel", 0>>, <<"Reroute", 7>>,
   <<"SpeedAdjust", 12>>}

\* RailwayNetwork.__init__ on a two-train schedule
InitTwoTrains ==
  /\ tracks = _load_network({})
  /\ adjacency_list = _build_adjacency_list(_load_network({}))
  /\ \E schedule \in TwoTrainSchedules :
       trains = _initialize_train_routes(
                  [t \in {schedule[1].Train_ID, schedule[2].Train_ID} |->
                     Train(IF t = schedule[1].Train_ID THEN schedule[1] ELSE schedule[2])],
                  _load_network({}), _build_adjacency_list(_load_network({})), "dijkstra")
  /\ pathfinding_strategy = "dijkstra"
  /\ result = [op |-> "idle"]
  /\ pair = [prior |-> [t \in TrackIds |-> NoKey]] @@ NoPair
  /\ ops = 0
  /\ NoServer

\* multi_strategy_optimizer._calculate_strategy_score(solution, train, weights)
\* for a solution of the given type and duration on a train of the network
CalculateStrategyScore(strategy_key, train_id, action_type, duration_mins) ==
  /\ Idle
  /\ result' = [op |-> "_calculate_strategy_score", strategy |-> strategy_key,
                train_id |-> train_id, action_type |-> action_type,
                duration_mins |-> duration_mins,
                value |-> _calculate_strategy_score(
                            [action_type |-> action_type, train_id |-> train_id,
                             duration_mins |-> duration_mins],
                            trains[train_id], StrategyWeights[strategy_key])]
  /\ UNCHANGED <<server, tracks, adjacency_list, pathfinding_strategy, trains, pair, ops>>

NextTwoTrains ==
  \/ \E t \in DOMAIN trains, d \in TwoTrainDelays : DelayEvent(t, d[1], d[2], d[3])
  \/ DetectConflicts
  \/ OptimizerDetectConflicts
  \/ GenerateStrategySchedules
  \/ \E k \in DOMAIN StrategyWeights, t \in DOMAIN trains, s \in ScoreInputs :
       CalculateStrategyScore(k, t, s[1], s[2])
  \/ Return

SpecTwoTrains == InitTwoTrains /\ [][NextTwoTrains]_vars

(***************************************************************************)
(* The digital twin under track_failure and track_repair events and        *)
(* Reroute actions.                                                        *)
(***************************************************************************)
NextTracks ==
  \/ \E t \in EventTracks \cup {UnknownTrack, NoKey} : ops < MaxTrackOps /\ TrackFailure(t)
  \/ \E t \in EventTracks \cup {UnknownTrack, NoKey} : ops < MaxTrackOps /\ TrackRepair(t)
  \/ \E t \in ActionTrains, route_index \in {0, 1} : ApplyAction("Reroute", t, route_index)
  \/ GetStateSnapshot
  \/ DetectConflicts
  \/ Return

SpecTracks == Init /\ [][NextTracks]_vars

(***************************************************************************)
(* The Flask app: the global network served by the threads of the          *)
(* development server.  No handler takes a lock; a thread can be switched  *)
(* out between any two statements, so every statement of a handler that    *)
(* writes the network is a step of its own.                                 *)
(***************************************************************************)
\* at most this many requests are received by the Flask app
MaxRequests == 3

\* the requests sent to the Flask app: the route and the JSON body (an event
\* with train_id and delay_minutes, the action of a recommendation, or none)
Requests ==
  {<<"/api/report-event",
     [train_id |-> "12001_SHATABDI", delay_minutes |-> 12, weather |-> "Rain",
      track_condition |-> NoKey]>>,
   <<"/api/report-event",
     [train_id |-> "14011_PASSENGER", delay_minutes |-> 5, weather |-> NoKey,
      track_condition |-> "Maintenance"]>>,
   <<"/api/report-event",
     [train_id |-> UnknownTrain, delay_minutes |-> 5, weather |-> NoKey,
      track_condition |-> NoKey]>>,
   <<"/api/accept-recommendation",
     [action_type |-> "Halt", train_id |-> "18205_GOODS", arg |-> 10]>>,
   <<"/api/accept-recommendation",
     [action_type |-> "Cancel", train_id |-> UnknownTrain, arg |-> 0]>>,
   <<"/api/state", None>>}

\* the handler has returned a response
Responded(h, status_code, network_state) ==
  requests' = [requests EXCEPT ![h] = [@ EXCEPT !.pc = "done"] @@
                                       [status_code |-> status_code,
                                        network_state |-> network_state]]

\* a free thread takes a request and enters the handler of its route, at the
\* first statement that works on the network
ReceiveRequest(h, route, body) ==
  /\ requests[h].pc = "idle" /\ ops < MaxRequests
  /\ requests' = [requests EXCEPT ![h] =
                    [route |-> route, body |-> body, before |-> None,
                     pc |-> CASE route = "/api/report-event" -> "apply_delay"
                              [] route = "/api/accept-recommendation" -> "apply_action"
                              [] OTHER -> "snapshot"]]
  /\ ops' = ops + 1
  /\ UNCHANGED <<backend, tracks, adjacency_list, pathfinding_strategy, trains, result, pair>>

\* report_event -> network.apply_event -> _handle_train_event up to and
\* including train.apply_delay
ReportEventApplyDelay(h) ==
  LET e == requests[h].body
  IN /\ requests[h].pc = "apply_delay"
     /\ IF e.train_id \notin DOMAIN trains
        THEN /\ Responded(h, 400, None)
             /\ UNCHANGED trains
        ELSE /\ trains' = [trains EXCEPT ![e.train_id] =
                             apply_delay(@, e.delay_minutes, "Reported disruption")]
             /\ requests' = [requests EXCEPT ![h].pc = "update_weather",
                                             ![h].before = trains[e.train_id]]
     /\ UNCHANGED <<backend, tracks, adjacency_list, pathfinding_strategy, result, pair, ops>>

\* _handle_train_event: train.update_weather_condition if the event has weather
ReportEventUpdateWeather(h) ==
  LET e == requests[h].body
  IN /\ requests[h].pc = "update_weather"
     /\ trains' = IF e.weather # NoKey
                  THEN [trains EXCEPT ![e.train_id].weather = e.weather] ELSE trains
     /\ requests' = [requests EXCEPT ![h].pc = "update_track_condition"]
     /\ UNCHANGED <<backend, tracks, adjacency_list, pathfinding_strategy, result, pair, ops>>

\* _handle_train_event: train.update_track_condition if the event has
\* track_condition; apply_event then returns True
ReportEventUpdateTrackCondition(h) ==
  LET e == requests[h].body
  IN /\ requests[h].pc = "update_track_condition"
     /\ trains' = IF e.track_condition # NoKey
                  THEN [trains EXCEPT ![e.train_id].track_condition = e.track_condition]
                  ELSE trains
     /\ requests' = [requests EXCEPT ![h].pc = "generate_strategy_schedules"]
     /\ UNCHANGED <<backend, tracks, adjacency_list, pathfinding_strategy, result, pair, ops>>

\* report_event: multi_strategy_optimizer.generate_strategy_schedules(network);
\* an exception of the run is answered with status 500
ReportEventStrategies(h) ==
  LET g == generate_strategy_schedules(<<[trains |-> trains, tracks |-> tracks]>>, 1)
  IN /\ requests[h].pc = "generate_strategy_schedules"
     /\ trains' = g.heap[1].trains
     /\ tracks' = g.heap[1].tracks
     /\ IF g.raised # NoKey THEN Responded(h, 500, None) ELSE requests' = [requests EXCEPT ![h].pc = "snapshot"]
     /\ UNCHANGED <<backend, adjacency_list, pathfinding_strategy, result, pair, ops>>

\* accept_recommendation: network.apply_action(action)
AcceptRecommendationApplyAction(h) ==
  LET a == requests[h].body
      r == apply_action(trains, a.action_type, a.train_id, a.arg)
  IN /\ requests[h].pc = "apply_action"
     /\ trains' = r.trains
     /\ IF r.raised # NoKey THEN Responded(h, 500, None)
        ELSE IF ~r.ok THEN Responded(h, 400, None)
        ELSE requests' = [requests EXCEPT ![h].pc = "snapshot"]
     /\ UNCHANGED <<backend, tracks, adjacency_list, pathfinding_strategy, result, pair, ops>>

\* network.get_state_snapshot() of get_current_state, report_event and
\* accept_recommendation, and the response that carries it
RespondWithSnapshot(h) ==
  /\ requests[h].pc = "snapshot"
  /\ Responded(h, 200, get_state_snapshot(trains, tracks))
  /\ UNCHANGED <<backend, tracks, adjacency_list, pathfinding_strategy, trains, result, pair, ops>>

\* the response has been sent; the thread is free for the next request
EndRequest(h) ==
  /\ requests[h].pc = "done"
  /\ requests' = [requests EXCEPT ![h] = NoRequest]
  /\ UNCHANGED <<backend, tracks, adjacency_list, pathfinding_strategy, trains, result, pair, ops>>

NextRequests ==
  \/ \E h \in Handlers, r \in Requests : ReceiveRequest(h, r[1], r[2])
  \/ \E h \in Handlers : ReportEventApplyDelay(h)
  \/ \E h \in Handlers : ReportEventUpdateWeather(h)
  \/ \E h \in Handlers : ReportEventUpdateTrackCondition(h)
  \/ \E h \in Handlers : ReportEventStrategies(h)
  \/ \E h \in Handlers : AcceptRecommendationApplyAction(h)
  \/ \E h \in Handlers : RespondWithSnapshot(h)
  \/ \E h \in Handlers : EndRequest(h)

SpecRequests == Init /\ [][NextRequests]_vars

(***************************************************************************)
(* Start-up: initialize_system builds the global network from the topology *)
(* file it finds (or does not find) in the working directory.              *)
(***************************************************************************)
\* what open() and json.load() make of network_graph.json, and the tracks the
\* file lists with status "maintenance"
TopologyFiles ==
  {[found |-> FALSE, parses |-> FALSE, maintenance |-> {}],
   [found |-> TRUE, parses |-> FALSE, maintenance |-> {}]}
  \cup {[found |-> TRUE, parses |-> TRUE, maintenance |-> m] : m \in MaintenanceInFile}

\* NetworkGraph.__init__: the tracks after _load_network, which answers
\* FileNotFoundError and every other exception with _create_minimal_network
NetworkGraph(network_file) ==
  IF network_file.found /\ network_file.parses
  THEN _load_network(network_file.maintenance)
  ELSE _create_minimal_network

\* RailwayNetwork.__init__ on the schedule of the schedule file
RailwayNetwork(network_file) ==
  LET trk == NetworkGraph(network_file)
  IN [tracks |-> trk,
      adjacency_list |-> _build_adjacency_list(trk),
      trains |-> _initialize_train_routes(
                   [t \in TrainIds |->
                      Train(ScheduleData[CHOOSE i \in DOMAIN ScheduleData :
                                           ScheduleData[i].Train_ID = t])],
                   trk, _build_adjacency_list(trk), "dijkstra")]

\* the module globals before initialize_system: network is None
InitStartup ==
  /\ tracks = << >>
  /\ adjacency_list = << >>
  /\ trains = << >>
  /\ pathfinding_strategy = "dijkstra"
  /\ result = [op |-> "idle"]
  /\ pair = [prior |-> [t \in TrackIds |-> NoKey]] @@ NoPair
  /\ ops = 0
  /\ NoServer

\* the global network exists
NetworkCreated == DOMAIN tracks # {}

\* initialize_system(): network = RailwayNetwork(initial_schedule_data)
InitializeSystem(network_file) ==
  LET n == RailwayNetwork(network_file)
  IN /\ Idle /\ ~NetworkCreated
     /\ tracks' = n.tracks
     /\ adjacency_list' = n.adjacency_list
     /\ trains' = n.trains
     /\ result' = [op |-> "initialize_system", network_file |-> network_file,
                   raised |-> FALSE]
     /\ UNCHANGED <<server, pathfinding_strategy, pair, ops>>

NextStartup ==
  \/ \E f \in TopologyFiles : InitializeSystem(f)
  \/ \E t \in TrainIds, d \in DelayInputs : NetworkCreated /\ DelayEvent(t, d[1], d[2], d[3])
  \/ \E t \in {"NDLS_ANVR_MAIN", "NDLS_ANVR"} : NetworkCreated /\ TrackFailureEvent(t)
  \/ \E t \in {"NDLS_ANVR_MAIN", "NDLS_ANVR"} : NetworkCreated /\ TrackRepairEvent(t)
  \/ NetworkCreated /\ GetStateSnapshot
  \/ Return

SpecStartup == InitStartup /\ [][NextStartup]_vars

(***************************************************************************)
(* The FastAPI backend: optimisation jobs in jobs_store, each run by a     *)
(* background task on the event loop.  A task gives up control only at its *)
(* awaits, so the statements between two awaits are one step.              *)
(***************************************************************************)
\* at most this many optimisation jobs are triggered
MaxJobs == 2

\* the first eight characters str(uuid.uuid4()) can have; a job_id is modelled
\* as <<these characters, the rest>>, the rest being unique
JobIdPrefixes == {"a1b2c3d4", "0f0f0f0f"}

\* RailwayOptimizer.optimize_for_delay / optimize_for_failure /
\* optimize_for_priority: the meta block of the graph each returns
optimize_for(method, disruption) ==
  [meta |-> [scenario |-> CASE method = "optimize_for_delay" -> "delay"
                            [] method = "optimize_for_failure" -> "failure"
                            [] method = "optimize_for_priority" -> "priority",
             source_graph |-> "network_graph.json",
             disruption |-> disruption]]

\* f"network_graph_opt_{scenario}_{job_id[:8]}.json"
Filename(scenario, job_id) == <<"network_graph_opt", scenario, job_id[1], "json">>

\* POST /api/optimise: trigger_optimization stores a pending job and adds the
\* background task
TriggerOptimization(prefix, disruption) ==
  LET job_id == <<prefix, Cardinality(DOMAIN jobs_store) + 1>>
  IN /\ Cardinality(DOMAIN jobs_store) < MaxJobs
     /\ jobs_store' = (job_id :> [status |-> "pending", disruption |-> disruption,
                                   result_files |-> None, error |-> None]) @@ jobs_store
     /\ tasks' = (job_id :> [pc |-> "start", optimized_graphs |-> << >>]) @@ tasks
     /\ UNCHANGED <<tracks, adjacency_list, pathfinding_strategy, trains, result, pair, ops,
                    requests, optimised_dir>>

\* the except branch of run_optimization
Failed(job_id) ==
  /\ jobs_store' = [jobs_store EXCEPT ![job_id].status = "failed",
                                      ![job_id].error = "Exception"]
  /\ tasks' = [tasks EXCEPT ![job_id].pc = "done"]

\* run_optimization up to its first await: the job is running
RunOptimizationStart(job_id) ==
  /\ tasks[job_id].pc = "start"
  /\ jobs_store' = [jobs_store EXCEPT ![job_id].status = "running"]
  /\ tasks' = [tasks EXCEPT ![job_id].pc = "load"]
  /\ UNCHANGED <<tracks, adjacency_list, pathfinding_strategy, trains, result, pair, ops,
                 requests, optimised_dir>>

\* run_optimization: the original graph is read and the optimizer built, which
\* raises when the file is gone or is not a graph
RunOptimizationLoad(job_id, raises) ==
  /\ tasks[job_id].pc = "load"
  /\ IF raises THEN Failed(job_id)
     ELSE /\ tasks' = [tasks EXCEPT ![job_id].pc = "optimize_for_delay"]
          /\ UNCHANGED jobs_store
  /\ UNCHANGED <<tracks, adjacency_list, pathfinding_strategy, trains, result, pair, ops,
                 requests, optimised_dir>>

\* run_optimization: one of the three graphs is generated and stored; after the
\* third the job is completed with its result_files
RunOptimizationGenerate(job_id, raises) ==
  LET method == tasks[job_id].pc
      graph == optimize_for(method, jobs_store[job_id].disruption)
      filename == Filename(graph.meta.scenario, job_id)
      optimized_graphs == (graph.meta.scenario :> filename) @@ tasks[job_id].optimized_graphs
  IN /\ method \in {"optimize_for_delay", "optimize_for_failure", "optimize_for_priority"}
     /\ IF raises
        THEN Failed(job_id) /\ UNCHANGED optimised_dir
        ELSE /\ optimised_dir' = (filename :> graph) @@ optimised_dir
             /\ tasks' = [tasks EXCEPT
                            ![job_id] =
                              [pc |-> CASE method = "optimize_for_delay" -> "optimize_for_failure"
                                        [] method = "optimize_for_failure" ->
                                             "optimize_for_priority"
                                        [] OTHER -> "done",
                               optimized_graphs |-> optimized_graphs]]
             /\ jobs_store' =
                  IF method = "optimize_for_priority"
                  THEN [jobs_store EXCEPT ![job_id].status = "completed",
                                          ![job_id].result_files = optimized_graphs]
                  ELSE jobs_store
     /\ UNCHANGED <<tracks, adjacency_list, pathfinding_strategy, trains, result, pair, ops,
                    requests>>

\* get_job_results that serves the results whatever the status of the job is
get_job_results_any_status(jobs, job_id) ==
  IF job_id \notin DOMAIN jobs THEN [status_code |-> 404, result_files |-> None]
  ELSE [status_code |-> 200, result_files |-> jobs[job_id].result_files]

\* get_job_results: the status code and the result_files of the response
get_job_results(jobs, job_id) ==
  IF job_id \notin DOMAIN jobs THEN [status_code |-> 404, result_files |-> None]
  ELSE IF jobs[job_id].status # "completed"
  THEN [status_code |-> 400, result_files |-> None]
  ELSE [status_code |-> 200, result_files |-> jobs[job_id].result_files]

\* GET /api/optimise/result/{job_id}
GetJobResults(job_id) ==
  /\ Idle
  /\ result' = [op |-> "get_job_results", job_id |-> job_id,
                value |-> get_job_results(jobs_store, job_id)]
  /\ UNCHANGED <<tracks, adjacency_list, pathfinding_strategy, trains, pair, ops, server>>

NextJobs ==
  \/ \E prefix \in JobIdPrefixes, d \in {[type |-> "delay"], [type |-> "failure"]} :
       TriggerOptimization(prefix, d)
  \/ \E j \in DOMAIN tasks : RunOptimizationStart(j)
  \/ \E j \in DOMAIN tasks, raises \in BOOLEAN : RunOptimizationLoad(j, raises)
  \/ \E j \in DOMAIN tasks, raises \in BOOLEAN : RunOptimizationGenerate(j, raises)
  \/ \E j \in DOMAIN jobs_store \cup {<<"a1b2c3d4", 0>>} : GetJobResults(j)
  \/ Return

SpecJobs == InitStartup /\ [][NextJobs]_vars

\* C16: for every origin, destination, train type and k, find_alternative_routes
\* returns at most k routes, no two of which have identical station lists,
\* sorted ascending by route cost, so that the first element has the lowest
\* route cost of the returned routes.
C16_AlternativesDistinctSortedAtMostK ==
  result.op = "find_alternative_routes"
    => /\ Len(result.value) <= result.max_alternatives
       /\ \A i, j \in DOMAIN result.value :
            i < j => /\ result.value[i].stations # result.value[j].stations
                     /\ result.value[i].total_cost <= result.value[j].total_cost

\* two routes returned, the cheaper one first, for a query that allows three
C16_Witness ==
  /\ result.op = "find_alternative_routes"
  /\ result.max_alternatives = 3
  /\ Len(result.value) = 2
  /\ result.value[1].total_cost < result.value[2].total_cost

\* every outbound edge of the station is disabled
OutboundDisabled(station) ==
  \A t \in TrackIds : TrackFile[t].from = station => tracks[t].status = "disabled"

\* C17: find_best_route returns none (never an empty route) when origin ==
\* destination, and returns none when every outbound edge of the origin is
\* disabled, under every strategy and criterion.
C17_NoRouteIsNone ==
  (result.op = "find_best_route"
     /\ (result.origin = result.destination \/ OutboundDisabled(result.origin)))
    => result.value = None

\* NDLS -> GZB asked of the greedy search, which has a built-in route for this
\* pair, with the three tracks out of NDLS disabled
C17_Witness ==
  /\ result.op = "find_best_route"
  /\ result.origin = "NDLS" /\ result.destination = "GZB"
  /\ pathfinding_strategy = "greedy"
  /\ OutboundDisabled("NDLS")
  /\ result.value = None

(***************************************************************************)
(* Properties of the digital twin (Spec).                                  *)
(***************************************************************************)

\* C3 (as stated): get_state_snapshot reports network_health "healthy" if and
\* only if every track of the topology has status operational.
C3_HealthyIffAllOperational ==
  result.op = "get_state_snapshot"
    => (result.value.network_status.network_health = "healthy"
          <=> \A t \in TrackIds : tracks[t].status = "operational")

\* C3 (amended): get_state_snapshot reports network_health "healthy" if and only
\* if no track of the topology has status disabled, i.e. failed_tracks = 0; a
\* track in maintenance does not make the network degraded.
C3_HealthyIffNoTrackDisabled ==
  result.op = "get_state_snapshot"
    => /\ result.value.network_status.network_health = "healthy"
            <=> \A t \in TrackIds : tracks[t].status # "disabled"
       /\ result.value.network_status.network_health = "healthy"
            <=> result.value.network_status.failed_tracks = 0

\* a snapshot of a network with a track in maintenance and none disabled
C3_Witness ==
  /\ result.op = "get_state_snapshot"
  /\ \E t \in TrackIds : tracks[t].status = "maintenance"
  /\ \A t \in TrackIds : tracks[t].status # "disabled"
  /\ result.value.network_status.network_health = "healthy"

\* C4: a delay event for train T with delay_minutes d increases
\* T.actual_delay_mins by exactly d and leaves the actual_delay_mins of every
\* other train unchanged.
C4_DelayEventAddsExactly ==
  (result.op = "apply_event" /\ result.event_type = "delay" /\ result.value)
    => /\ result.train_id \in TrainIds
       /\ trains[result.train_id].actual_delay_mins =
            result.before.trains[result.train_id].actual_delay_mins + result.delay_minutes
       /\ \A t \in TrainIds \ {result.train_id} :
            trains[t].actual_delay_mins = result.before.trains[t].actual_delay_mins

\* a delay of 12 minutes for a train that was already late
C4_Witness ==
  /\ result.op = "apply_event" /\ result.event_type = "delay" /\ result.value
  /\ result.delay_minutes = 12
  /\ result.before.trains[result.train_id].actual_delay_mins > 0
  /\ trains[result.train_id].actual_delay_mins > 12

\* the required buffer B of C5, from the claim's wording
ClaimedBuffer(a, b) ==
  (IF a.train_type = "Express" /\ b.train_type = "Express" THEN 8
   ELSE IF a.train_type = "Goods" \/ b.train_type = "Goods" THEN 20
   ELSE 10)
  + (IF a.weather \in {"Rain", "Fog"} \/ b.weather \in {"Rain", "Fog"} THEN 5 ELSE 0)
  + (IF a.track_condition = "Maintenance" \/ b.track_condition = "Maintenance"
     THEN 10 ELSE 0)

\* train a arrives before train b: ascending ETA, trains of equal ETA in the
\* order of the trains dict
ArrivesBefore(a, b) ==
  \/ get_eta_at_destination(trains[a]).eta < get_eta_at_destination(trains[b]).eta
  \/ /\ get_eta_at_destination(trains[a]).eta = get_eta_at_destination(trains[b]).eta
     /\ \E i, j \in DOMAIN TrainOrder : i < j /\ TrainOrder[i] = a /\ TrainOrder[j] = b

\* a and b are adjacent in ascending ETA order among the trains arriving at
\* the same destination
AdjacentArrivals(a, b) ==
  /\ a # b
  /\ trains[a].section_end = trains[b].section_end
  /\ ArrivesBefore(a, b)
  /\ ~ \E c \in TrainIds \ {a, b} :
         /\ trains[c].section_end = trains[a].section_end
         /\ ArrivesBefore(a, c) /\ ArrivesBefore(c, b)

\* C5: for every pair of trains (a, b) adjacent in ascending ETA order among the
\* trains arriving at the same destination, the conflict detector emits a
\* conflict for (a, b) if and only if b.eta - a.eta < B, where B is 8 if both
\* are Express, else 20 if either is Goods, else 10, plus 5 if either has
\* weather Rain or Fog, plus 10 if either has track_condition Maintenance; and
\* it emits no conflict for any other pair.
C5_ConflictIffGapBelowBuffer ==
  result.op = "_detect_conflicts"
    => /\ \A a, b \in TrainIds :
            AdjacentArrivals(a, b)
              => ((\E i \in DOMAIN result.value : result.value[i].affected_trains = <<a, b>>)
                    <=> get_eta_at_destination(trains[b]).eta
                          - get_eta_at_destination(trains[a]).eta
                        < ClaimedBuffer(trains[a], trains[b]))
       /\ \A i \in DOMAIN result.value :
            AdjacentArrivals(result.value[i].affected_trains[1],
                             result.value[i].affected_trains[2])

\* two Express trains in the rain 9 minutes apart (B = 13) are in conflict,
\* while another adjacent pair is not
C5_Witness ==
  /\ result.op = "_detect_conflicts"
  /\ \E i \in DOMAIN result.value :
       /\ result.value[i].required_buffer_minutes = 13
       /\ result.value[i].time_gap_minutes = 9
  /\ \E a, b \in TrainIds :
       /\ AdjacentArrivals(a, b)
       /\ \A i \in DOMAIN result.value : result.value[i].affected_trains # <<a, b>>

\* C6: a train to which Cancel (apply_cancellation) has been applied never
\* appears in affected_trains of a conflict detected by a later run.
C6_CancelledTrainNotInConflicts ==
  result.op = "_detect_conflicts"
    => \A i \in DOMAIN result.value : \A j \in 1..2 :
         trains[result.value[i].affected_trains[j]].status.kind # "Cancelled"

\* the event named a train that is not in the network, or named no track or a
\* track that is not in the topology
UnknownIdentifier ==
  /\ result.op = "apply_event"
  /\ \/ result.event_type = "delay" /\ result.train_id \notin TrainIds
     \/ result.event_type \in {"track_failure", "track_repair"}
          /\ result.track_id \notin TrackIds

\* C7: apply_event with an unknown identifier - a delay event whose train_id is
\* not in the network, or a track_failure / track_repair event whose track_id is
\* missing or not in the topology - returns false and leaves every train (delay,
\* status, conditions, route slots), every track's status and the adjacency
\* list unchanged.
C7_UnknownIdentifierRejected ==
  UnknownIdentifier
    => /\ result.value = FALSE
       /\ trains = result.before.trains
       /\ tracks = result.before.tracks
       /\ adjacency_list = result.before.adjacency_list

\* a track_failure event without track_id on a network that has a disabled track
C7_Witness ==
  /\ UnknownIdentifier
  /\ result.event_type = "track_failure" /\ result.track_id = NoKey
  /\ \E t \in TrackIds : tracks[t].status = "disabled"

\* the Reroute action named a train of the network and a route_index that is
\* not a valid index of its alternative_routes
OutOfRangeReroute ==
  /\ result.op = "apply_action" /\ result.action_type = "Reroute"
  /\ result.train_id \in TrainIds
  /\ ~(0 <= result.arg
       /\ result.arg < Len(result.before.trains[result.train_id].alternative_routes))

\* C8: for every integer i that is not a valid index of the train's
\* alternative_routes, switch_to_alternative_route(i) / Reroute with
\* route_index i returns false and leaves the train's current_route,
\* actual_delay_mins and status unchanged.
C8_OutOfRangeRerouteRejected ==
  OutOfRangeReroute
    => /\ result.raised = NoKey /\ result.value = FALSE
       /\ trains[result.train_id].current_route =
            result.before.trains[result.train_id].current_route
       /\ trains[result.train_id].actual_delay_mins =
            result.before.trains[result.train_id].actual_delay_mins
       /\ trains[result.train_id].status = result.before.trains[result.train_id].status

\* the action named a train of the network and an invalid parameter
InvalidParameter ==
  /\ result.op = "apply_action" /\ result.train_id \in TrainIds
  /\ \/ result.action_type = "SpeedAdjust" /\ result.arg <= 0
     \/ result.action_type = "Halt" /\ result.arg < 0

\* C9: apply_action with SpeedAdjust and speed_factor <= 0, or Halt with a
\* negative duration_mins, returns false and leaves the target train's
\* actual_delay_mins and status unchanged.
C9_InvalidParameterRejected ==
  InvalidParameter
    => /\ result.value = FALSE
       /\ trains[result.train_id].actual_delay_mins =
            result.before.trains[result.train_id].actual_delay_mins
       /\ trains[result.train_id].status = result.before.trains[result.train_id].status

\* the network objects a multi-strategy run worked on, in the order it made them
WorkedOn == result.sim_networks \o result.strategy_networks

\* C10: a multi-strategy run (run_all_strategies, generate_strategy_schedules)
\* works only on deep copies: whether it returns or raises, the network passed in
\* is unchanged afterwards (trains, tracks, adjacency list); every network it
\* worked on is an object of its own, different from the network passed in and
\* from every other copy, so that what is applied to one copy is visible in no
\* other; and a copy no action was applied to equals the network passed in.
C10_RunWorksOnDeepCopies ==
  result.op = "generate_strategy_schedules"
    => /\ trains = result.before.trains
       /\ tracks = result.before.tracks
       /\ adjacency_list = result.before.adjacency_list
       /\ result.heap[result.network_model] =
            [trains |-> result.before.trains, tracks |-> result.before.tracks]
       /\ \A i \in DOMAIN WorkedOn :
            /\ WorkedOn[i] # result.network_model
            /\ \A j \in DOMAIN WorkedOn : i # j => WorkedOn[i] # WorkedOn[j]
       /\ \A k \in DOMAIN result.strategy_networks :
            result.statuses[k] # "ConflictFound"
              => result.heap[result.strategy_networks[k]] = result.heap[result.network_model]

\* a run that returned, on a network changed by an event: three simulation
\* copies and three schedule copies
C10_Witness ==
  /\ result.op = "generate_strategy_schedules" /\ result.raised = NoKey
  /\ Len(result.sim_networks) = 3 /\ Len(result.strategy_networks) = 3
  /\ \E t \in TrainIds : trains[t].actual_delay_mins > 0
  /\ \E t \in TrackIds : tracks[t].status = "disabled"

\* the candidates the pipeline generates for the first conflict of trs
Candidates(trs) ==
  IF _detect_conflicts(trs) = << >> THEN << >>
  ELSE _generate_solutions(_detect_conflicts(trs)[1], trs)

\* r is a ConflictFound result whose recommended action is a candidate of trs
\* of minimum score under the profile of strategy_key
RecommendsArgmin(r, trs, strategy_key) ==
  /\ r.raised = NoKey
  /\ r.status = "ConflictFound"
  /\ \E i \in DOMAIN Candidates(trs) :
       /\ r.recommendation.action = Candidates(trs)[i]
       /\ \A j \in DOMAIN Candidates(trs) :
            _calculate_strategy_score(Candidates(trs)[i], trs[Candidates(trs)[i].train_id],
                                      StrategyWeights[strategy_key])
              <= _calculate_strategy_score(Candidates(trs)[j],
                                           trs[Candidates(trs)[j].train_id],
                                           StrategyWeights[strategy_key])

\* C11: whenever the per-strategy pipeline detects at least one conflict and
\* generates at least one candidate, it returns status ConflictFound with a
\* recommendation whose action is one of the generated candidates and whose
\* score is the minimum of all candidates' scores under that strategy's profile.
C11_ConflictFoundWithArgmin ==
  (result.op = "generate_strategy_schedules" /\ Candidates(result.before.trains) # << >>)
    => \A k \in DOMAIN StrategyOrder :
         RecommendsArgmin(_run_strategy(result.before.trains, StrategyOrder[k]),
                          result.before.trains, StrategyOrder[k])

RECURSIVE Reach(_, _, _)
\* the stations reached from the stations S over at most n operational tracks
\* of trk
Reach(trk, S, n) ==
  IF n = 0 THEN S
  ELSE Reach(trk,
             S \cup {TrackFile[t].to :
                       t \in {u \in TrackIds : TrackFile[u].from \in S
                                                /\ trk[u].status = "operational"}},
             n - 1)

\* some path of operational tracks of trk leads from origin to destination
PathExists(trk, origin, destination) ==
  destination \in Reach(trk, {origin}, Cardinality(StationIds))

\* the train's current route has a segment on the track
UsesTrack(train, track_id) ==
  /\ train.current_route # None
  /\ \E i \in DOMAIN train.current_route.segments :
       train.current_route.segments[i].track_id = track_id

\* a track_failure event that succeeded on a fully operational network
FailureOnOperationalNetwork ==
  /\ result.op = "apply_event" /\ result.event_type = "track_failure" /\ result.value
  /\ \A t \in TrackIds : result.before.tracks[t].status = "operational"

\* C18: after a track_failure event on an operational track t of a fully
\* operational network, every train whose current route used t and for which a
\* path avoiding t exists has a non-empty alternative_routes list, and the
\* snapshot reports network_health "degraded" and failed_tracks = 1.
C18_FailureGivesAlternatives ==
  FailureOnOperationalNetwork
    => /\ \A t \in DOMAIN trains :
            (/\ UsesTrack(result.before.trains[t], result.track_id)
             /\ PathExists(tracks, trains[t].section_start, trains[t].section_end))
              => trains[t].alternative_routes # << >>
       /\ get_state_snapshot(trains, tracks).network_status.network_health = "degraded"
       /\ get_state_snapshot(trains, tracks).network_status.failed_tracks = 1

\* scenario S2: NDLS_ANVR_MAIN fails; 12001_SHATABDI, whose route used it, gets
\* alternatives, and 14011_PASSENGER, whose route did not, is left without
C18_Witness ==
  /\ FailureOnOperationalNetwork
  /\ result.track_id = "NDLS_ANVR_MAIN"
  /\ UsesTrack(result.before.trains["12001_SHATABDI"], "NDLS_ANVR_MAIN")
  /\ result.before.trains["12001_SHATABDI"].alternative_routes = << >>
  /\ Len(trains["12001_SHATABDI"].alternative_routes) = 2
  /\ trains["12001_SHATABDI"].alternative_routes[1].stations = <<"NDLS", "SBB", "GZB">>
  /\ trains["14011_PASSENGER"].alternative_routes = << >>

\* a track_repair event on t has succeeded, after a track_failure event on t
\* and no other change of a track's status in between
RepairedAfterFailure ==
  /\ result.op = "apply_event" /\ result.event_type = "track_repair" /\ result.value
  /\ pair.phase = "closed" /\ pair.track = result.track_id

RoutesJustInitialised ==
  \/ ops = 0 /\ Idle
  \/ result.op = "apply_event" /\ result.event_type = "track_repair" /\ result.value

\* C20: whenever route initialisation (at construction, or the one a
\* track_repair triggers) finds no path between a train's origin and
\* destination, that train's primary_route, alternative_routes and
\* current_route are empty afterwards.
C20_NoPathLeavesRouteSlotsEmpty ==
  RoutesJustInitialised =>
    \A t \in DOMAIN trains :
      find_best_route(tracks, adjacency_list, pathfinding_strategy,
                      trains[t].section_start, trains[t].section_end,
                      trains[t].train_type, "time") = None
      => /\ trains[t].primary_route = None
         /\ trains[t].alternative_routes = << >>
         /\ trains[t].current_route = None

(***************************************************************************)
(* Properties of the two-train schedules (SpecTwoTrains).                  *)
(***************************************************************************)

\* scenario S1 after its event: 12001_SHATABDI (priority 1) and 18205_GOODS
\* (priority 5) scheduled one minute apart, 12001_SHATABDI delayed by 25
\* minutes in Fog, nothing else reported
S1 ==
  /\ trains["12001_SHATABDI"].priority = 1 /\ trains["18205_GOODS"].priority = 5
  /\ trains["18205_GOODS"].scheduled_arrival_time
       - trains["12001_SHATABDI"].scheduled_arrival_time \in {-1, 1}
  /\ trains["12001_SHATABDI"].actual_delay_mins = 25
  /\ trains["12001_SHATABDI"].weather = "Fog"
  /\ trains["12001_SHATABDI"].track_condition = "Normal"
  /\ trains["18205_GOODS"].actual_delay_mins = 0
  /\ trains["18205_GOODS"].weather = "Clear"
  /\ trains["18205_GOODS"].track_condition = "Normal"

\* the pipeline run under strategy_key on trs returns a recommendation whose
\* action is of the given type, on the given train, with the given duration
Wins(trs, strategy_key, action_type, train_id, duration_mins) ==
  /\ _run_strategy(trs, strategy_key).raised = NoKey
  /\ _run_strategy(trs, strategy_key).status = "ConflictFound"
  /\ _run_strategy(trs, strategy_key).recommendation.action # None
  /\ _run_strategy(trs, strategy_key).recommendation.action.action_type = action_type
  /\ _run_strategy(trs, strategy_key).recommendation.action.train_id = train_id
  /\ _run_strategy(trs, strategy_key).recommendation.action.duration_mins = duration_mins

\* C12: in scenario S1 the required buffer is 25, the arrival gap is 24
\* minutes, a conflict of severity Critical is emitted, and the winning
\* candidate is Halt 18205_GOODS 15 under Balanced, Halt 18205_GOODS 20 or
\* Cancel 18205_GOODS under Punctuality, and Halt 12001_SHATABDI 5 under
\* Throughput.
C12_S1BufferGapSeverityWinners ==
  (result.op = "_detect_conflicts" /\ S1)
    => /\ Len(result.value) = 1
       /\ result.value[1].required_buffer_minutes = 25
       /\ result.value[1].time_gap_minutes = 24
       /\ result.value[1].severity = "Critical"
       /\ Wins(trains, "balanced", "Halt", "18205_GOODS", 15)
       /\ \/ Wins(trains, "punctuality", "Halt", "18205_GOODS", 20)
          \/ Wins(trains, "punctuality", "Cancel", "18205_GOODS", 0)
       /\ Wins(trains, "throughput", "Halt", "12001_SHATABDI", 5)

\* the train the winner of strategy_key acts on, for a run that recommends
WinnerActsOn(trs, strategy_key, train_id) ==
  /\ _run_strategy(trs, strategy_key).raised = NoKey
  /\ _run_strategy(trs, strategy_key).status = "ConflictFound"
  /\ _run_strategy(trs, strategy_key).recommendation.action # None
  /\ _run_strategy(trs, strategy_key).recommendation.action.train_id = train_id

\* C13: for a conflict between one Express and one Goods train at the same
\* destination, evaluated under all three profiles, the Throughput winner acts
\* on the Express, the Punctuality winner acts on the Goods, and the three
\* winners' target trains are not all the same train.
C13_ProfilesPickDifferentTrains ==
  (result.op = "generate_strategy_schedules"
     /\ _detect_conflicts(result.before.trains) # << >>)
    => /\ WinnerActsOn(result.before.trains, "throughput", "12001_SHATABDI")
       /\ WinnerActsOn(result.before.trains, "punctuality", "18205_GOODS")
       /\ ~ \E t \in {"12001_SHATABDI", "18205_GOODS"} :
              \A k \in DOMAIN StrategyWeights : WinnerActsOn(result.before.trains, k, t)

\* C14: for any two trains with identical ETA at the same destination (gap 0),
\* whatever their types, priorities, weather, track condition and time of day,
\* a conflict is emitted and its severity is Critical if and only if the
\* required buffer B > 0.
C14_IdenticalEtaCriticalIffBuffer ==
  result.op = "_detect_conflicts"
    => \A a, b \in DOMAIN trains :
         (/\ a # b
          /\ trains[a].section_end = trains[b].section_end
          /\ get_eta_at_destination(trains[a]).eta = get_eta_at_destination(trains[b]).eta)
           => \E i \in DOMAIN result.value :
                /\ result.value[i].affected_trains \in {<<a, b>>, <<b, a>>}
                /\ result.value[i].time_gap_minutes = 0
                /\ result.value[i].severity = "Critical"
                     <=> result.value[i].required_buffer_minutes > 0

InsideApplyEvent(h) == requests[h].pc \in {"update_weather", "update_track_condition"}

\* the snapshot shows the train of the event with the event's delay applied
\* and the weather it had before the event
SeesDelayWithoutWeather(network_state, event_data, before) ==
  /\ event_data.weather # NoKey /\ event_data.weather # before.weather
  /\ network_state.trains[event_data.train_id].current_delay_mins
       = before.actual_delay_mins + event_data.delay_minutes
  /\ network_state.trains[event_data.train_id].weather = before.weather

\* C21: tasks on the network are mutually exclusive: no two threads are inside
\* apply_event at the same time, and no state snapshot a handler returns shows
\* a train with the delay of a delay event applied while the weather carried
\* by the same event is not yet updated.
C21_SnapshotSeesNoIntermediateState ==
  /\ Cardinality({h \in Handlers : InsideApplyEvent(h)}) <= 1
  /\ \A r \in Handlers, w \in Handlers :
       (/\ requests[r].pc = "done" /\ requests[r].status_code = 200
        /\ requests[w].route = "/api/report-event" /\ requests[w].before # None)
       => ~SeesDelayWithoutWeather(requests[r].network_state, requests[w].body,
                                   requests[w].before)

(***************************************************************************)
(* Properties of the start-up (SpecStartup).                               *)
(***************************************************************************)
\* C22: when the topology file is missing or cannot be loaded, construction
\* fails and no network is created; the minimal fallback topology is never in
\* use, since no request for a demo mode can be made.
C22_LoadFailureCreatesNoNetwork ==
  /\ (/\ result.op = "initialize_system"
      /\ ~(result.network_file.found /\ result.network_file.parses))
     => result.raised /\ ~NetworkCreated
  /\ DOMAIN tracks # MinimalTrackIds

(***************************************************************************)
(* Properties of the FastAPI job runner (SpecJobs).                        *)
(***************************************************************************)
\* the moves of a job's status
StatusMoves ==
  {<<"pending", "running">>, <<"running", "completed">>, <<"running", "failed">>}

\* every job that exists keeps its status or makes one of the moves, and a new
\* job is pending
StatusMovesForward ==
  \A j \in DOMAIN jobs_store' :
    IF j \in DOMAIN jobs_store
    THEN \/ jobs_store'[j].status = jobs_store[j].status
         \/ <<jobs_store[j].status, jobs_store'[j].status>> \in StatusMoves
    ELSE jobs_store'[j].status = "pending"

\* the result_files of a completed job: the three scenarios, each naming a
\* stored graph of that scenario
ThreeGraphsStored(result_files) ==
  /\ DOMAIN result_files = {"delay", "failure", "priority"}
  /\ \A k \in DOMAIN result_files :
       /\ result_files[k] \in DOMAIN optimised_dir
       /\ optimised_dir[result_files[k]].meta.scenario = k

\* C23: a job's status moves only pending -> running -> completed or failed;
\* get_job_results serves results only while the job is completed; and a
\* completed job's result_files has the entries delay, failure and priority,
\* each naming a stored graph whose meta.scenario equals its key.
C23_JobsMoveForwardAndServeThreeGraphs ==
  /\ [][StatusMovesForward]_vars
  /\ [](/\ (result.op = "get_job_results" /\ result.value.status_code = 200)
           => jobs_store[result.job_id].status = "completed"
        /\ \A j \in DOMAIN jobs_store :
             jobs_store[j].status = "completed" => ThreeGraphsStored(jobs_store[j].result_files))

\* the results of a completed job have been served while a second job with the
\* same first eight characters of job_id has failed
C23_Witness ==
  /\ result.op = "get_job_results" /\ result.value.status_code = 200
  /\ ThreeGraphsStored(result.value.result_files)
  /\ \E j \in DOMAIN jobs_store :
       j # result.job_id /\ j[1] = result.job_id[1] /\ jobs_store[j].status = "failed"

(***************************************************************************)
(* Further properties of the pathfinder (SpecGraph).                       *)
(***************************************************************************)
RECURSIVE PathCosts(_, _, _, _, _, _)
\* the cumulative edge costs of the paths of at most n operational tracks of
\* trk that lead from station from to destination
PathCosts(trk, from, destination, criteria, train_type, n) ==
  IF from = destination THEN {0}
  ELSE IF n = 0 THEN {}
  ELSE UNION {{_calculate_edge_cost(u, criteria, train_type) + c :
                 c \in PathCosts(trk, TrackFile[u].to, destination, criteria, train_type,
                                 n - 1)} :
              u \in {t \in DOMAIN trk : TrackFile[t].from = from
                                         /\ trk[t].status = "operational"}}

\* the cumulative edge cost of a route under the criteria it was asked with
RouteEdgeCost(route, criteria, train_type) ==
  SumSeq([i \in DOMAIN route.segments |->
            _calculate_edge_cost(route.segments[i].track_id, criteria, train_type)])

\* find_best_route has just answered a query of the dijkstra strategy for two
\* different stations
DijkstraAnswered ==
  /\ result.op = "find_best_route" /\ pathfinding_strategy = "dijkstra"
  /\ result.origin # result.destination

\* C24: with strategy dijkstra and origin # destination, find_best_route
\* returns a route if and only if some path of operational edges leads from
\* origin to destination, and the cumulative edge cost of the returned route is
\* minimal among all such paths.
C24_DijkstraFindsCheapestPath ==
  DijkstraAnswered =>
    LET costs == PathCosts(tracks, result.origin, result.destination, result.criteria,
                           result.train_type, Cardinality(TrackIds))
    IN /\ result.value # None <=> costs # {}
       /\ result.value # None =>
            \A c \in costs :
              RouteEdgeCost(result.value, result.criteria, result.train_type) <= c

\* NDLS -> GZB for an Express by time with NDLS_ANVR_MAIN disabled: of the two
\* paths left, over SBB and over SHZM, the route over SBB is returned
C24_Witness ==
  /\ DijkstraAnswered
  /\ result.origin = "NDLS" /\ result.destination = "GZB"
  /\ result.criteria = "time" /\ result.train_type = "Express"
  /\ tracks["NDLS_ANVR_MAIN"].status = "disabled"
  /\ Cardinality(PathCosts(tracks, "NDLS", "GZB", "time", "Express",
                           Cardinality(TrackIds))) = 2
  /\ result.value # None
  /\ result.value.stations = <<"NDLS", "SBB", "GZB">>

(***************************************************************************)
(* Properties of the conflict severity and of the score (SpecTwoTrains)    *)
(***************************************************************************)
\* the severity the five-term sum maps to, for two trains of the network, the
\* gap between their arrivals and the buffer B required between them
SeverityOfSum(train1, train2, gap, B) ==
  LET Peak == {"Morning_Peak", "Evening_Peak"}
      sum == (IF 10 * gap < 3 * B THEN 3 ELSE IF 10 * gap < 6 * B THEN 2 ELSE 1)
             + (IF train1.priority <= 2 \/ train2.priority <= 2 THEN 1 ELSE 0)
             + (IF train1.weather # "Clear" \/ train2.weather # "Clear" THEN 1 ELSE 0)
             + (IF train1.track_condition = "Maintenance"
                   \/ train2.track_condition = "Maintenance" THEN 1 ELSE 0)
             + (IF train1.time_of_day \in Peak \/ train2.time_of_day \in Peak
                THEN 1 ELSE 0)
  IN IF sum >= 5 THEN "Critical"
     ELSE IF sum >= 3 THEN "High" ELSE IF sum >= 2 THEN "Medium" ELSE "Low"

\* C25: every conflict emitted by the detector of Optimizer and by the detector
\* of MultiStrategyOptimizer has the severity the sum of the five terms maps to:
\* the gap term, +1 for a priority <= 2, +1 for a weather other than Clear, +1
\* for a track_condition Maintenance, +1 for a time_of_day in the peak hours.
C25_SeverityIsMappedSum ==
  result.op \in {"_detect_conflicts", "Optimizer._detect_conflicts"}
    => \A i \in DOMAIN result.value :
         LET conflict == result.value[i]
         IN conflict.severity
              = SeverityOfSum(trains[conflict.affected_trains[1]],
                              trains[conflict.affected_trains[2]],
                              conflict.time_gap_minutes,
                              conflict.required_buffer_minutes)

\* the score of the formula ((C0 * action multiplier) + D + weather_factor +
\* track_factor + reroute add-on + time_factor) * P * peak multiplier, in
\* hundredths, for a solution that carries no alternative_route (reroute add-on
\* 0); the sum is computed in fortieths, P and the peak multiplier in tenths
ScoreOfFormula(solution, train, weights) ==
  LET Peak == {"Morning_Peak", "Evening_Peak"}
      C0 == CASE solution.action_type = "Halt" -> 4 * weights.halt_penalty_multiplier
              [] solution.action_type = "SpeedAdjust" -> 2 * 10
              [] solution.action_type = "Reroute" -> 20 * weights.reroute_penalty_multiplier
              [] solution.action_type = "Cancel" -> 200 * weights.cancel_penalty_multiplier
      D == solution.duration_mins
             * (CASE train.train_type = "Express" -> 20
                  [] train.train_type = "Passenger" -> 10
                  [] train.train_type = "Local" -> 6
                  [] train.train_type = "Goods" -> 4
                  [] OTHER -> 10)
             * (IF train.time_of_day \in Peak THEN 3 ELSE 2)
      weather_factor == IF train.weather \in {"Rain", "Fog"} THEN 5 * 40 ELSE 0
      track_factor == IF train.track_condition = "Maintenance" THEN 10 * 40 ELSE 0
      time_factor == IF train.time_of_day \in Peak THEN -2 * 40 ELSE 0
      P == PRIORITY_WEIGHTS(train.priority)
             * (CASE train.train_type = "Express" -> weights.express_priority_multiplier
                  [] train.train_type = "Passenger" -> weights.passenger_priority_multiplier
                  [] train.train_type = "Goods" -> weights.goods_priority_multiplier
                  [] OTHER -> 10)
      peak_mult == IF train.time_of_day \in Peak THEN weights.peak_hour_multiplier ELSE 10
  IN RoundHalfEven((C0 + D + weather_factor + track_factor + time_factor) * P * peak_mult,
                   40)

\* C26: for every candidate, train and strategy profile, the score of the
\* multi-strategy scorer is ((C0 * action multiplier) + D + weather_factor +
\* track_factor + reroute add-on + time_factor) * P * peak multiplier, with D =
\* duration * 0.5 scaled by Express 2.0, Passenger 1.0, Local 0.6, Goods 0.4 and
\* by 1.5 in peak hours.
C26_ScoreIsFormula ==
  result.op = "_calculate_strategy_score"
    => result.value
         = ScoreOfFormula([action_type |-> result.action_type,
                           train_id |-> result.train_id,
                           duration_mins |-> result.duration_mins],
                          trains[result.train_id], StrategyWeights[result.strategy])

(***************************************************************************)
(* Further properties of the events and actions of the twin (Spec)         *)
(***************************************************************************)
\* the train's current route has no segment on a track that is disabled in trk
AvoidsDisabledTracks(train, trk) ==
  \A u \in DOMAIN trk : trk[u].status = "disabled" => ~UsesTrack(train, u)

\* a track_repair event has just succeeded
RepairSucceeded ==
  result.op = "apply_event" /\ result.event_type = "track_repair" /\ result.value

CancelledStays ==
  \A t \in DOMAIN trains :
    trains[t].status.kind = "Cancelled"
      => /\ trains'[t].status.kind = "Cancelled"
         /\ trains'[t].actual_delay_mins = trains[t].actual_delay_mins

\* the step is a track_failure event, a track_repair event or a Cancel action
TrackEventOrCancel ==
  \/ result'.op = "apply_event" /\ result'.event_type \in {"track_failure", "track_repair"}
  \/ result'.op = "apply_action" /\ result'.action_type = "Cancel"

\* C28 (as stated): once a train's status is Cancelled, no later event or action
\* (delay event, Halt, SpeedAdjust, Reroute, track_failure, track_repair)
\* changes its status away from Cancelled or changes its actual_delay_mins.
C28_CancelledIsTerminal == [][CancelledStays]_vars

\* C28 (amended): once a train's status is Cancelled, no later track_failure
\* event, track_repair event or Cancel action changes its status away from
\* Cancelled or changes its actual_delay_mins.
C28_CancelledSurvivesTrackEvents == [][TrackEventOrCancel => CancelledStays]_vars

\* 18205_GOODS was cancelled and a track_repair event has then recalculated its
\* routes
C28_Witness ==
  /\ RepairSucceeded
  /\ result.before.trains["18205_GOODS"].status.kind = "Cancelled"
  /\ trains["18205_GOODS"].status.kind = "Cancelled"
  /\ trains["18205_GOODS"].current_route # None

\* the train's current_route is one of its route slots
CurrentRouteIsKnown(train) ==
  \/ train.current_route = None
  \/ train.current_route = train.primary_route
  \/ \E i \in DOMAIN train.alternative_routes :
       train.current_route = train.alternative_routes[i]

\* C30: in every reachable state, after any sequence of events and actions,
\* each train's current_route is empty, equal to its primary_route, or equal to
\* an element of its current alternative_routes list.
C30_CurrentRouteIsPrimaryOrAlternative ==
  \A t \in DOMAIN trains : CurrentRouteIsKnown(trains[t])

\* the step is a track_failure event that replaces the alternative_routes of
\* train t
FailureReplacesAlternatives(t) ==
  /\ result'.op = "apply_event" /\ result'.event_type = "track_failure"
  /\ trains'[t].alternative_routes # trains[t].alternative_routes

\* C30 (amended): initially, and after every event or action other than a
\* track_failure event that replaces the train's alternative_routes, a train
\* whose current_route was empty, its primary_route or an element of its
\* alternative_routes still has a current_route that is empty, equal to its
\* primary_route, or equal to an element of its current alternative_routes.
C30_CurrentRouteStaysKnownUnlessFailureReplaces ==
  /\ C30_CurrentRouteIsPrimaryOrAlternative
  /\ [][\A t \in DOMAIN trains :
          (CurrentRouteIsKnown(trains[t]) /\ ~FailureReplacesAlternatives(t))
            => CurrentRouteIsKnown(trains'[t])]_vars

\* a Reroute has put 12001_SHATABDI on the first of the alternatives a track
\* failure gave it
C30_Witness ==
  /\ result.op = "apply_action" /\ result.action_type = "Reroute" /\ result.value
  /\ result.train_id = "12001_SHATABDI"
  /\ trains["12001_SHATABDI"].current_route = trains["12001_SHATABDI"].alternative_routes[1]
  /\ trains["12001_SHATABDI"].current_route # trains["12001_SHATABDI"].primary_route

(***************************************************************************)
(* Further properties of the graph (SpecGraph)                             *)
(***************************************************************************)
\* the step is an enable_track, or a track_repair event, on a track of the
\* graph that is not disabled
EnablesTrackNotDisabled ==
  /\ \/ result'.op = "enable_track"
     \/ result'.op = "apply_event" /\ result'.event_type = "track_repair"
  /\ result'.track_id \in DOMAIN tracks
  /\ tracks[result'.track_id].status # "disabled"

\* C29: enable_track (and a track_repair event) on a track that is not
\* currently disabled leaves that track's status unchanged, whatever its status
\* is (operational, maintenance, ...).
C29_EnableLeavesStatusOfTrackNotDisabled ==
  [][EnablesTrackNotDisabled
       => tracks'[result'.track_id].status = tracks[result'.track_id].status]_vars
====
